---------------------------- MODULE Spec2Model ----------------------------
(***************************************************************************)
(* The ingestion / dedup / enrichment pipeline of money-mirror             *)
(* (cloud_function/src): DataProcessor.process_files and delete_file_data, *)
(* the BigQueryManager queries they issue, and GeminiEnricher.             *)
(*                                                                         *)
(* Strings are sequences of ASCII codes, so that UPPER, TRIM, strip and    *)
(* the lexical ORDER BY are computed and not assumed.  The warehouse       *)
(* tables are sequences of rows in insertion order.                        *)
(***************************************************************************)
EXTENDS Integers, Sequences, FiniteSets, TLC

\* ------------------------------------------------------------------ bounds

\* operations (process_files, delete_file_data) started in one behaviour
MaxOps == 3

\* rows of the bulk statement file: more distinct keys than one LIMIT holds
BulkRows == 103

\* ------------------------------------------------------- program constants

\* LIMIT of the uncategorized-descriptions query
GapLimit == 100

\* batch_size of categorize_descriptions
batch_size == 20

\* ----------------------------------------------------------------- strings

NULL == <<-1>>

s_Uber == <<85, 98, 101, 114>>
s_UBER == <<85, 66, 69, 82>>
s_uber == <<117, 98, 101, 114>>
s_uber_sp == <<117, 98, 101, 114, 32>>
s_sp_Starbucks == <<32, 83, 116, 97, 114, 98, 117, 99, 107, 115>>
s_Starbucks == <<83, 116, 97, 114, 98, 117, 99, 107, 115>>
s_STARBUCKS == <<83, 84, 65, 82, 66, 85, 67, 75, 83>>
s_Netflix == <<78, 101, 116, 102, 108, 105, 120>>
s_NETFLIX == <<78, 69, 84, 70, 76, 73, 88>>
s_blank == <<32>>
s_empty == <<>>
s_Uncategorized == "Uncategorized"

\* "T" followed by the three decimal digits of i
BulkDescription(i) ==
    <<84, 48 + (i \div 100), 48 + ((i \div 10) % 10), 48 + (i % 10)>>

Min2(a, b) == IF a <= b THEN a ELSE b

\* str.upper() / UPPER() on ASCII
UpperChar(c) == IF c \in 97..122 THEN c - 32 ELSE c

Upper(s) == [i \in 1..Len(s) |-> UpperChar(s[i])]

\* whitespace of Python's str.strip()
PyWhitespace == {9, 10, 11, 12, 13, 28, 29, 30, 31, 32}

\* whitespace of BigQuery's TRIM(): the White_Space code points (ASCII part)
SqlWhitespace == {9, 10, 11, 12, 13, 32}

Strip(s, ws) ==
    LET keep == {i \in 1..Len(s) : s[i] \notin ws}
    IN  IF keep = {} THEN <<>>
        ELSE LET lo == CHOOSE i \in keep : \A j \in keep : i <= j
                 hi == CHOOSE i \in keep : \A j \in keep : j <= i
             IN  SubSeq(s, lo, hi)

PyStrip(s) == Strip(s, PyWhitespace)

SqlTrim(s) == Strip(s, SqlWhitespace)

\* code-point order of two strings, the order of ORDER BY on a STRING column
RECURSIVE LexLess(_, _)
LexLess(a, b) ==
    IF b = <<>> THEN FALSE
    ELSE IF a = <<>> THEN TRUE
    ELSE IF a[1] # b[1] THEN a[1] < b[1]
    ELSE LexLess(Tail(a), Tail(b))

\* the elements of a set of strings in descending order
OrderByDesc(S) ==
    LET ranked == {<<Cardinality({y \in S : LexLess(x, y)}), x>> : x \in S}
    IN  [i \in 1..Cardinality(S) |->
            (CHOOSE r \in ranked : r[1] = i - 1)[2]]

\* ORDER BY: the elements of a set of strings in ascending order, each with
\* the number of elements before it
OrderBy(S) ==
    LET ranked == {<<Cardinality({y \in S : LexLess(y, x)}), x>> : x \in S}
    IN  [i \in 1..Cardinality(S) |->
            (CHOOSE r \in ranked : r[1] = i - 1)[2]]

Range(f) == {f[i] : i \in DOMAIN f}

\* the strings ss[lo..hi] joined
RECURSIVE Join(_, _, _)
Join(ss, lo, hi) ==
    IF lo > hi THEN <<>>
    ELSE IF lo = hi THEN ss[lo]
    ELSE LET mid == (lo + hi) \div 2
         IN  Join(ss, lo, mid) \o Join(ss, mid + 1, hi)

Concat(ss) == Join(ss, 1, Len(ss))

\* ------------------------------------------------------------- fingerprints

\* hashlib.md5(...).hexdigest(): a digest that is a function of the bytes
\* alone.  A position-weighted sum modulo a prime stands for MD5: it changes
\* with any single byte and is collision-free on the byte strings of this
\* model.
Weight(i) == 1 + ((((i * i) % 9973) * 7919 + i * 131) % 1000003)

RECURSIVE WeightedSum(_, _, _)
WeightedSum(bytes, lo, hi) ==
    IF lo > hi THEN 0
    ELSE IF lo = hi THEN (bytes[lo] * Weight(lo)) % 1000003
    ELSE LET mid == (lo + hi) \div 2
         IN  (WeightedSum(bytes, lo, mid) + WeightedSum(bytes, mid + 1, hi))
                % 1000003

md5(bytes) == (WeightedSum(bytes, 1, Len(bytes)) + 31 * Len(bytes)) % 1000003


\* ------------------------------------------------------------ file storage

Institutions == {"amex", "wealthsimple"}

\* the blobs of the bucket
Paths ==
    {"a.csv", "a_copy.csv", "b.csv", "empty.csv", "bulk.csv", "notes.txt",
     "nocols.csv", "a2.csv"}

\* the Description column of each blob of the bucket, as read by pandas
Blob(file_path) ==
    CASE file_path = "a.csv" -> <<s_Uber, s_UBER, s_sp_Starbucks>>
      [] file_path = "a_copy.csv" -> <<s_Uber, s_UBER, s_sp_Starbucks>>
      [] file_path = "b.csv" -> <<s_uber, s_Netflix, s_blank>>
      [] file_path = "empty.csv" -> <<>>
      [] file_path = "bulk.csv" -> [i \in 1..BulkRows |-> BulkDescription(i)]
      [] file_path = "notes.txt" -> <<s_Netflix>>
      [] file_path = "nocols.csv" -> <<s_NETFLIX>>
      [] file_path = "a2.csv" -> <<s_Starbucks, s_Uber>>
      [] OTHER -> <<>>

\* blob.download_as_bytes(): the cells, one per line
file_content(file_path) ==
    LET cells == Blob(file_path)
    IN  Concat([i \in 1..Len(cells) |-> cells[i] \o <<10>>])

\* the characters of a blob's name
PathChars(file_path) ==
    CASE file_path = "a.csv" -> <<97, 46, 99, 115, 118>>
      [] file_path = "a_copy.csv" ->
            <<97, 95, 99, 111, 112, 121, 46, 99, 115, 118>>
      [] file_path = "b.csv" -> <<98, 46, 99, 115, 118>>
      [] file_path = "empty.csv" ->
            <<101, 109, 112, 116, 121, 46, 99, 115, 118>>
      [] file_path = "notes.txt" ->
            <<110, 111, 116, 101, 115, 46, 116, 120, 116>>
      [] file_path = "nocols.csv" ->
            <<110, 111, 99, 111, 108, 115, 46, 99, 115, 118>>
      [] file_path = "a2.csv" -> <<97, 50, 46, 99, 115, 118>>
      [] OTHER -> <<98, 117, 108, 107, 46, 99, 115, 118>>

\* a fingerprint of the blob's name instead of its bytes
get_file_hash_of_name(file_path) == md5(PathChars(file_path))

\* the MD5 of each blob's bytes, computed once
ContentDigest == [file_path \in Paths |-> md5(file_content(file_path))]

\* FileProcessor.get_file_hash
get_file_hash(file_path) == ContentDigest[file_path]

\* str.lower() on ASCII
LowerChar(c) == IF c \in 65..90 THEN c + 32 ELSE c

Lower(s) == [i \in 1..Len(s) |-> LowerChar(s[i])]

\* str.endswith
EndsWith(s, suffix) ==
    /\ Len(suffix) <= Len(s)
    /\ SubSeq(s, Len(s) - Len(suffix) + 1, Len(s)) = suffix

ext_csv == <<46, 99, 115, 118>>
ext_xlsx == <<46, 120, 108, 115, 120>>
ext_xls == <<46, 120, 108, 115>>

h_Date == <<68, 97, 116, 101>>
h_Transaction == <<84, 114, 97, 110, 115, 97, 99, 116, 105, 111, 110>>
h_Description == <<68, 101, 115, 99, 114, 105, 112, 116, 105, 111, 110>>
h_Amount == <<65, 109, 111, 117, 110, 116>>
h_Balance_sp == <<66, 97, 108, 97, 110, 99, 101, 32>>

\* the header of each blob: the statements carry the columns both parsers
\* ask for, nocols.csv has no Description
Header(file_path) ==
    IF file_path = "nocols.csv" THEN {h_Date, h_Amount, h_Balance_sp}
    ELSE {h_Date, h_Transaction, h_Description, h_Amount, h_Balance_sp}

\* _parse_amex_data: the required columns missing from the stripped header
missing_amex_columns(file_path) ==
    {col \in {h_Date, h_Description, h_Amount} :
        col \notin {PyStrip(h) : h \in Header(file_path)}}

\* _parse_wealthsimple_data: the expected columns missing from the
\* lower-cased, stripped header
missing_wealthsimple_columns(file_path) ==
    {col \in {Lower(h_Date), Lower(h_Transaction), Lower(h_Description),
              Lower(h_Amount), PyStrip(Lower(h_Balance_sp))} :
        col \notin {PyStrip(Lower(h)) : h \in Header(file_path)}}

\* FileProcessor.parse_file: the exception it raises, "no" when it returns
parse_file_error(file_path, institution) ==
    LET name == Lower(PathChars(file_path))
    IN  IF ~(EndsWith(name, ext_csv) \/ EndsWith(name, ext_xlsx)
                \/ EndsWith(name, ext_xls))
        THEN "ValueError"
        ELSE IF institution = "amex"
        THEN IF missing_amex_columns(file_path) # {}
             THEN "ValueError" ELSE "no"
        ELSE IF institution = "wealthsimple"
        THEN IF missing_wealthsimple_columns(file_path) # {}
             THEN "ValueError" ELSE "no"
        ELSE "ValueError"

\* str(sorted(row.items())): the parsed fields in key order
row_content(description) == <<100>> \o description

\* FileProcessor.parse_file: the parsed rows with their metadata
parse_file(file_path, institution) ==
    LET cells == Blob(file_path)
        file_hash == ContentDigest[file_path]
    IN  [i \in 1..Len(cells) |->
            LET description == PyStrip(cells[i])
            IN  [file_name |-> file_path,
                 file_hash |-> file_hash,
                 description |-> description,
                 row_hash |-> md5(row_content(description)),
                 is_processed |-> FALSE]]

\* ------------------------------------------------------------------ state

Procs == {1, 2}

VARIABLES
    raw_amex_transactions,          \* warehouse table, rows in insertion order
    raw_wealthsimple_transactions,  \* warehouse table
    dim_description_categories,     \* warehouse table: the category cache
    dbt,                \* tags run since the last raw write / cache write
    pc,                 \* pc[p]: state of the operation process p runs
    request,            \* request[p]: the operation's arguments
    files_to_process,   \* files_to_process[p]
    cursor,             \* cursor[p]: loop position of the current state
    total_rows,         \* total_rows[p] of _process_and_load_files
    uncategorized_descriptions,
    all_results,        \* all_results[p] of categorize_descriptions
    selections,         \* selections[p]: dbt selections still to run
    models_built,       \* models_built[p] of _run_dbt_models
    result,             \* result[p]: the ProcessingResult
    trace,              \* trace[p]: the states the operation went through
    base,               \* base[p]: the raw tables as the operation found them
    prev,               \* the operation that ended before the current one
    ops,                \* operations started
    exchanges,          \* exchanges[p]: the batches sent to the model, each
                        \* with the answer and the records made of it
    dim_categories,     \* warehouse table: the taxonomy
    responses,          \* the HTTP responses sent, in order
    GCP_PROJECT_ID      \* whether the environment variable is set

durable == <<raw_amex_transactions, raw_wealthsimple_transactions,
             dim_description_categories, dbt>>

locals == <<pc, request, files_to_process, cursor, total_rows,
            uncategorized_descriptions, all_results, selections,
            models_built, result, trace, exchanges>>

web == <<dim_categories, responses, GCP_PROJECT_ID>>

vars == <<durable, locals, base, prev, ops, web>>

Tags == {"staging", "intermediate", "marts"}

NoRequest == [op |-> "none"]

ZeroResult ==
    [files_processed |-> 0, rows_inserted |-> 0, new_categories |-> 0,
     dbt_models_built |-> 0]

RawTables == raw_amex_transactions \o raw_wealthsimple_transactions

\* --------------------------------------------------------------- warehouse

CountWhere(table, file_hash) ==
    Cardinality({i \in DOMAIN table : table[i].file_hash = file_hash})

\* the ledger query over one raw table only
file_already_processed_amex_only(file_hash) ==
    CountWhere(raw_amex_transactions, file_hash) > 0

\* BigQueryManager.file_already_processed
file_already_processed(file_hash) ==
    LET count == CountWhere(raw_amex_transactions, file_hash)
                 + CountWhere(raw_wealthsimple_transactions, file_hash)
    IN  count > 0

\* TRIM(x) alone
description_key_as_typed(description) == SqlTrim(description)

\* UPPER(TRIM(x))
description_key(description) == Upper(SqlTrim(description))

Described(table) ==
    {i \in DOMAIN table :
        table[i].description # NULL /\ table[i].description # <<>>}

\* the query without its anti-join: every key of the raw tables
get_uncategorized_descriptions_no_join ==
    LET all_descriptions ==
            {description_key(RawTables[i].description) :
                i \in Described(RawTables)}
        ordered == OrderBy(all_descriptions)
    IN  SubSeq(ordered, 1, Min2(Len(ordered), GapLimit))

\* the query without its LIMIT
get_uncategorized_descriptions_unlimited ==
    LET all_descriptions ==
            {description_key(RawTables[i].description) :
                i \in Described(RawTables)}
        dc == {description_key(dim_description_categories[i].description_key) :
                i \in DOMAIN dim_description_categories}
    IN  OrderBy({ad \in all_descriptions : ad \notin dc})

\* BigQueryManager.get_uncategorized_descriptions
get_uncategorized_descriptions ==
    LET all_descriptions ==
            {description_key(raw_amex_transactions[i].description) :
                i \in Described(raw_amex_transactions)}
            \cup
            {description_key(raw_wealthsimple_transactions[i].description) :
                i \in Described(raw_wealthsimple_transactions)}
        dc == {description_key(dim_description_categories[i].description_key) :
                i \in DOMAIN dim_description_categories}
        unmatched == {ad \in all_descriptions : ad \notin dc}
        ordered == OrderBy(unmatched)
    IN  SubSeq(ordered, 1, Min2(Len(ordered), GapLimit))


\* ---------------------------------------------------------------- enricher

model_name == "gemini-2.5-flash"

\* JSON values of the model's answer: a key that is absent, null, a string,
\* a number (in hundredths)
JAbsent == [t |-> "absent"]
JNull == [t |-> "null"]
JStr(s) == [t |-> "str", v |-> s]
JNum(n) == [t |-> "num", v |-> n]

\* Python's None in a field of a record
None == "None"

JObject(general, detailed, score) ==
    [t |-> "object", general_category |-> general,
     detailed_category |-> detailed, confidence_score |-> score]

\* an array element that is not an object (a number, a string)
JScalar == [t |-> "scalar"]

\* cat.get(key, default) for a category: null comes back as None
GetCategory(field) ==
    CASE field.t = "absent" -> s_Uncategorized
      [] field.t = "null" -> None
      [] OTHER -> field.v

\* float(cat.get('confidence_score', 0.0)): the value, or the exception
FloatOf(field) ==
    CASE field.t = "absent" -> [raises |-> "no", v |-> 0]
      [] field.t = "num" -> [raises |-> "no", v |-> field.v]
      [] field.t = "null" -> [raises |-> "TypeError", v |-> 0]
      [] OTHER -> [raises |-> "ValueError", v |-> 0]

\* a key that is the description trimmed and lower-cased
py_description_key_lower(desc) == PyStrip(Lower(desc))

\* desc.upper().strip()
py_description_key(desc) == PyStrip(Upper(desc))

FallbackRecord(desc) ==
    [description_key |-> py_description_key(desc),
     original_description |-> desc,
     general_category |-> s_Uncategorized,
     detailed_category |-> s_Uncategorized,
     confidence_score |-> 0,
     gemini_model_version |-> model_name]

Fallback(descriptions) ==
    [i \in 1..Len(descriptions) |-> FallbackRecord(descriptions[i])]

\* the exception the loop body raises for element i, "no" when it raises none
ItemRaises(cat) ==
    IF cat.t # "object" THEN "AttributeError"
    ELSE FloatOf(cat.confidence_score).raises

ItemRecord(desc, cat) ==
    [description_key |-> py_description_key(desc),
     original_description |-> desc,
     general_category |-> GetCategory(cat.general_category),
     detailed_category |-> GetCategory(cat.detailed_category),
     confidence_score |-> FloatOf(cat.confidence_score).v,
     gemini_model_version |-> model_name]

\* a parser that gives the fallback record to each description the array
\* has no object for
parse_gemini_response_padded(text, original_descriptions) ==
    IF text.fence = "other" \/ text.json.t # "array"
    THEN [raised |-> "no", results |-> Fallback(original_descriptions)]
    ELSE [raised |-> "no",
          results |-> [i \in 1..Len(original_descriptions) |->
                IF i <= Len(text.json.items)
                    /\ ItemRaises(text.json.items[i]) = "no"
                THEN ItemRecord(original_descriptions[i], text.json.items[i])
                ELSE FallbackRecord(original_descriptions[i])]]

\* GeminiEnricher._parse_gemini_response: the records, or the exception that
\* leaves it.  response.text is [fence, json]: the fence around the text and
\* what json.loads makes of the text inside.
parse_gemini_response(text, original_descriptions) ==
    LET n == Len(original_descriptions)
    IN  IF text.fence = "other" \/ text.json.t = "invalid"
        THEN [raised |-> "no", results |-> Fallback(original_descriptions)]
        ELSE IF text.json.t \in {"number", "null"}
        THEN [raised |-> "TypeError", results |-> <<>>]
        ELSE IF text.json.t = "object"
        THEN IF text.json.keys = 0
             THEN [raised |-> "no", results |-> <<>>]
             ELSE [raised |-> "AttributeError", results |-> <<>>]
        ELSE LET categorizations == text.json.items
                 m == Min2(Len(categorizations), n)
                 bad == {i \in 1..m : ItemRaises(categorizations[i]) # "no"}
             IN  IF bad = {}
                 THEN [raised |-> "no",
                       results |-> [i \in 1..m |->
                           ItemRecord(original_descriptions[i],
                                      categorizations[i])]]
                 ELSE LET first == CHOOSE i \in bad : \A j \in bad : i <= j
                          e == ItemRaises(categorizations[first])
                      IN  IF e = "ValueError"
                          THEN [raised |-> "no",
                                results |-> Fallback(original_descriptions)]
                          ELSE [raised |-> e, results |-> <<>>]

\* GeminiEnricher._categorize_batch: every exception ends in the fallback
categorize_batch(descriptions, response) ==
    IF response.kind = "raise" THEN Fallback(descriptions)
    ELSE LET parsed == parse_gemini_response(response.text, descriptions)
         IN  IF parsed.raised = "no" THEN parsed.results
             ELSE Fallback(descriptions)

\* a batch that runs to the end of the list
BatchToEnd(descriptions, i) ==
    SubSeq(descriptions, i + 1, Len(descriptions))

\* the batch of categorize_descriptions that starts at offset i
Batch(descriptions, i) ==
    SubSeq(descriptions, i + 1, Min2(i + batch_size, Len(descriptions)))


\* ------------------------------------------------------------------ inputs

Request(institution, file_paths, force_reprocess) ==
    [op |-> "process_files", institution |-> institution,
     file_paths |-> file_paths, force_reprocess |-> force_reprocess]

\* the /process-data requests callers submit: the same bytes under two paths
\* and two institutions, a list of two files, a file without rows, a forced
\* re-run
Requests ==
    {Request("amex", <<"a.csv">>, FALSE),
     Request("wealthsimple", <<"a_copy.csv", "b.csv">>, FALSE),
     Request("amex", <<"empty.csv">>, FALSE),
     Request("amex", <<"a.csv">>, TRUE)}

\* the files a caller asks to forget
ForgetPaths == {"a.csv"}

\* what dbt reports as built for one selection
ModelsBuilt == {0, 1}

GoodObject(i) ==
    IF i % 2 = 1
    THEN JObject(JStr("Groceries"), JStr("Supermarkets"), JNum(50 + i))
    ELSE JObject(JStr("Transportation"), JStr("Rideshare"), JNum(50 + i))

GoodArray(k) == [i \in 1..k |-> GoodObject(i)]

ArrayText(items) ==
    [fence |-> "json", json |-> [t |-> "array", items |-> items]]

\* what the model does with a batch of n descriptions, in the pipeline runs
PipelineResponses(n) ==
    {[kind |-> "raise"]}
    \cup {[kind |-> "text", text |-> ArrayText(GoodArray(k))] :
            k \in {n - 1, n, n + 1}}

\* ----------------------------------------------------------------- actions

Goto(p, s) ==
    /\ pc' = [pc EXCEPT ![p] = s]
    /\ trace' = [trace EXCEPT ![p] = Append(@, s)]

Stay(p) == UNCHANGED <<pc, trace>>

Ended(p) == pc[p] \in {"IDLE", "DONE", "FAILED"}

Remember(p) ==
    prev' = IF pc[p] = "IDLE" THEN prev
            ELSE [request |-> request[p], trace |-> trace[p],
                  total_rows |-> total_rows[p]]

Snapshot(p) ==
    base' = [base EXCEPT ![p] =
                [amex |-> Len(raw_amex_transactions),
                 wealthsimple |-> Len(raw_wealthsimple_transactions),
                 cache |-> Len(dim_description_categories)]]

\* a write of rows to a raw table, or of entries to the cache, outdates the
\* transforms that ran before it
AfterRawWrite(d) == [d EXCEPT !.since_raw = {}]
AfterCacheWrite(d) == [d EXCEPT !.since_cache = {}]
AfterRun(d, tag) ==
    [since_raw |-> d.since_raw \cup {tag},
     since_cache |-> d.since_cache \cup {tag}]

\* DataProcessor.process_files is entered: result is the all-zero record and
\* the filter is next
EnterProcessFiles(p, req) ==
    /\ Ended(p)
    /\ Remember(p)
    /\ Snapshot(p)
    /\ request' = [request EXCEPT ![p] = req]
    /\ pc' = [pc EXCEPT ![p] = "FILTERING"]
    /\ trace' = [trace EXCEPT ![p] = <<"FILTERING">>]
    /\ files_to_process' = [files_to_process EXCEPT ![p] = <<>>]
    /\ cursor' = [cursor EXCEPT ![p] = 1]
    /\ total_rows' = [total_rows EXCEPT ![p] = 0]
    /\ uncategorized_descriptions' =
            [uncategorized_descriptions EXCEPT ![p] = <<>>]
    /\ all_results' = [all_results EXCEPT ![p] = <<>>]
    /\ exchanges' = [exchanges EXCEPT ![p] = <<>>]
    /\ selections' = [selections EXCEPT ![p] = <<>>]
    /\ models_built' = [models_built EXCEPT ![p] = 0]
    /\ result' = [result EXCEPT ![p] = ZeroResult]
    /\ UNCHANGED <<durable, web>>

\* a caller invokes process_files, one of the MaxOps operations of a behaviour
StartProcessFiles(p, req) ==
    /\ ops < MaxOps
    /\ ops' = ops + 1
    /\ EnterProcessFiles(p, req)

\* a filter that keeps every file without asking the ledger
FilterFileKeepingAll(p) ==
    /\ pc[p] = "FILTERING"
    /\ ~request[p].force_reprocess
    /\ cursor[p] <= Len(request[p].file_paths)
    /\ files_to_process' = [files_to_process EXCEPT ![p] =
            Append(@, request[p].file_paths[cursor[p]])]
    /\ cursor' = [cursor EXCEPT ![p] = @ + 1]
    /\ Stay(p)
    /\ UNCHANGED <<durable, request, total_rows, uncategorized_descriptions,
                   all_results, selections, models_built, result, base, prev,
                   ops, exchanges, web>>

\* a filter loop that starts over at the first file after the last one
FilterFileRescanning(p) ==
    /\ pc[p] = "FILTERING"
    /\ ~request[p].force_reprocess
    /\ cursor[p] <= Len(request[p].file_paths)
    /\ LET file_path == request[p].file_paths[cursor[p]]
           file_hash == get_file_hash(file_path)
           last == cursor[p] = Len(request[p].file_paths)
       IN  /\ files_to_process' = [files_to_process EXCEPT ![p] =
                    IF last THEN <<>>
                    ELSE IF ~file_already_processed(file_hash)
                    THEN Append(@, file_path) ELSE @]
           /\ cursor' = [cursor EXCEPT ![p] = IF last THEN 1 ELSE @ + 1]
    /\ Stay(p)
    /\ UNCHANGED <<durable, request, total_rows, uncategorized_descriptions,
                   all_results, selections, models_built, result, base, prev,
                   ops,
                   exchanges, web>>

\* _filter_files_for_processing: one file of the loop
FilterFile(p) ==
    /\ pc[p] = "FILTERING"
    /\ ~request[p].force_reprocess
    /\ cursor[p] <= Len(request[p].file_paths)
    /\ LET file_path == request[p].file_paths[cursor[p]]
           file_hash == get_file_hash(file_path)
       IN  files_to_process' = [files_to_process EXCEPT ![p] =
                IF ~file_already_processed(file_hash)
                THEN Append(@, file_path) ELSE @]
    /\ cursor' = [cursor EXCEPT ![p] = @ + 1]
    /\ Stay(p)
    /\ UNCHANGED <<durable, request, total_rows, uncategorized_descriptions,
                   all_results, selections, models_built, result, base, prev,
                   ops,
                   exchanges, web>>

\* the download or the ledger query of the filter raises
FilterFail(p) ==
    /\ pc[p] = "FILTERING"
    /\ ~request[p].force_reprocess
    /\ cursor[p] <= Len(request[p].file_paths)
    /\ Goto(p, "FAILED")
    /\ UNCHANGED <<durable, request, files_to_process, cursor, total_rows,
                   uncategorized_descriptions, all_results, selections,
                   models_built, result, base, prev, ops,
                   exchanges, web>>

\* a process_files without the early return: an empty filtered list goes on
\* to the load step
FilterDoneWithoutReturn(p) ==
    /\ pc[p] = "FILTERING"
    /\ request[p].force_reprocess \/ cursor[p] > Len(request[p].file_paths)
    /\ files_to_process' = [files_to_process EXCEPT ![p] =
            IF request[p].force_reprocess
            THEN request[p].file_paths ELSE files_to_process[p]]
    /\ Goto(p, "LOADING")
    /\ cursor' = [cursor EXCEPT ![p] = 1]
    /\ UNCHANGED <<durable, request, total_rows, uncategorized_descriptions,
                   all_results, selections, models_built, result, base, prev,
                   ops,
                   exchanges, web>>

\* a filter that returns the files its loop kept, also when forced
FilterDoneIgnoringForce(p) ==
    /\ pc[p] = "FILTERING"
    /\ request[p].force_reprocess \/ cursor[p] > Len(request[p].file_paths)
    /\ UNCHANGED files_to_process
    /\ IF files_to_process[p] = <<>>
       THEN Goto(p, "DONE") ELSE Goto(p, "LOADING")
    /\ cursor' = [cursor EXCEPT ![p] = 1]
    /\ UNCHANGED <<durable, request, total_rows, uncategorized_descriptions,
                   all_results, selections, models_built, result, base, prev,
                   ops,
                   exchanges, web>>

\* the filter returns: with nothing to process, process_files returns result
FilterDone(p) ==
    /\ pc[p] = "FILTERING"
    /\ request[p].force_reprocess \/ cursor[p] > Len(request[p].file_paths)
    /\ LET filtered == IF request[p].force_reprocess
                       THEN request[p].file_paths
                       ELSE files_to_process[p]
       IN  /\ files_to_process' = [files_to_process EXCEPT ![p] = filtered]
           /\ IF filtered = <<>> THEN Goto(p, "DONE") ELSE Goto(p, "LOADING")
    /\ cursor' = [cursor EXCEPT ![p] = 1]
    /\ UNCHANGED <<durable, request, total_rows, uncategorized_descriptions,
                   all_results, selections, models_built, result, base, prev,
                   ops,
                   exchanges, web>>

\* a load job with WRITE_TRUNCATE: the rows replace the table
load_raw_data_truncating(institution, rows) ==
    /\ raw_amex_transactions' =
            IF institution = "amex" /\ rows # <<>>
            THEN rows ELSE raw_amex_transactions
    /\ raw_wealthsimple_transactions' =
            IF institution = "wealthsimple" /\ rows # <<>>
            THEN rows ELSE raw_wealthsimple_transactions
    /\ dbt' = IF rows = <<>> THEN dbt ELSE AfterRawWrite(dbt)

\* BigQueryManager.load_raw_data: WRITE_APPEND of the rows to raw_<institution>
load_raw_data(institution, rows) ==
    /\ raw_amex_transactions' =
            IF institution = "amex"
            THEN raw_amex_transactions \o rows ELSE raw_amex_transactions
    /\ raw_wealthsimple_transactions' =
            IF institution = "wealthsimple"
            THEN raw_wealthsimple_transactions \o rows
            ELSE raw_wealthsimple_transactions
    /\ dbt' = IF rows = <<>> THEN dbt ELSE AfterRawWrite(dbt)

\* a loader that appends only the rows whose row_hash no stored row has
LoadFileSkippingKnownRows(p) ==
    /\ pc[p] = "LOADING"
    /\ cursor[p] <= Len(files_to_process[p])
    /\ parse_file_error(files_to_process[p][cursor[p]],
                        request[p].institution) = "no"
    /\ LET file_path == files_to_process[p][cursor[p]]
           known == {RawTables[i].row_hash : i \in DOMAIN RawTables}
           file_data == SelectSeq(parse_file(file_path, request[p].institution),
                                  LAMBDA row : row.row_hash \notin known)
           total == total_rows[p] + Len(file_data)
       IN  /\ load_raw_data(request[p].institution, file_data)
           /\ total_rows' = [total_rows EXCEPT ![p] = total]
           /\ IF cursor[p] = Len(files_to_process[p])
              THEN /\ result' = [result EXCEPT ![p] =
                        [@ EXCEPT !.files_processed = Len(files_to_process[p]),
                                  !.rows_inserted = total]]
                   /\ selections' = [selections EXCEPT ![p] = <<"staging">>]
                   /\ Goto(p, "STAGING_TRANSFORM")
              ELSE /\ UNCHANGED <<result, selections>>
                   /\ Stay(p)
    /\ cursor' = [cursor EXCEPT ![p] = @ + 1]
    /\ models_built' = [models_built EXCEPT ![p] = 0]
    /\ UNCHANGED <<dim_description_categories, request, files_to_process,
                   uncategorized_descriptions, all_results, base, prev, ops,
                   exchanges, web>>

\* _process_and_load_files: one file of the loop, parsed and appended; after
\* the last one the counters are set and the staging transform is next
LoadFile(p) ==
    /\ pc[p] = "LOADING"
    /\ cursor[p] <= Len(files_to_process[p])
    /\ parse_file_error(files_to_process[p][cursor[p]],
                        request[p].institution) = "no"
    /\ LET file_path == files_to_process[p][cursor[p]]
           file_data == parse_file(file_path, request[p].institution)
           total == total_rows[p] + Len(file_data)
       IN  /\ load_raw_data(request[p].institution, file_data)
           /\ total_rows' = [total_rows EXCEPT ![p] = total]
           /\ IF cursor[p] = Len(files_to_process[p])
              THEN /\ result' = [result EXCEPT ![p] =
                        [@ EXCEPT !.files_processed = Len(files_to_process[p]),
                                  !.rows_inserted = total]]
                   /\ selections' = [selections EXCEPT ![p] = <<"staging">>]
                   /\ Goto(p, "STAGING_TRANSFORM")
              ELSE /\ UNCHANGED <<result, selections>>
                   /\ Stay(p)
    /\ cursor' = [cursor EXCEPT ![p] = @ + 1]
    /\ models_built' = [models_built EXCEPT ![p] = 0]
    /\ UNCHANGED <<dim_description_categories, request, files_to_process,
                   uncategorized_descriptions, all_results, base, prev, ops,
                   exchanges, web>>

\* a loader that takes back the rows of the files before when one fails
LoadFailRolledBack(p) ==
    /\ pc[p] = "LOADING"
    /\ cursor[p] <= Len(files_to_process[p])
    /\ raw_amex_transactions' =
            SubSeq(raw_amex_transactions, 1, base[p].amex)
    /\ raw_wealthsimple_transactions' =
            SubSeq(raw_wealthsimple_transactions, 1, base[p].wealthsimple)
    /\ Goto(p, "FAILED")
    /\ UNCHANGED <<dim_description_categories, dbt, request,
                   files_to_process, cursor, total_rows,
                   uncategorized_descriptions, all_results, selections,
                   models_built, result, base, prev, ops, exchanges, web>>

\* parse_file or the load job raises: the rows of the files before stay
LoadFail(p) ==
    /\ pc[p] = "LOADING"
    /\ cursor[p] <= Len(files_to_process[p])
    /\ Goto(p, "FAILED")
    /\ UNCHANGED <<durable, request, files_to_process, cursor, total_rows,
                   uncategorized_descriptions, all_results, selections,
                   models_built, result, base, prev, ops,
                   exchanges, web>>

\* parse_file raises for the file type, the columns or the institution: the
\* error leaves process_files, the rows of the files before stay
LoadInvalid(p) ==
    /\ pc[p] = "LOADING"
    /\ cursor[p] <= Len(files_to_process[p])
    /\ parse_file_error(files_to_process[p][cursor[p]],
                        request[p].institution) # "no"
    /\ Goto(p, "FAILED")
    /\ UNCHANGED <<durable, request, files_to_process, cursor, total_rows,
                   uncategorized_descriptions, all_results, selections,
                   models_built, result, base, prev, ops, exchanges, web>>

Transforming == {"STAGING_TRANSFORM", "FINAL_TRANSFORM", "FORGET_TRANSFORM"}

\* _run_dbt_models: dbt run --select tag:<selection> for the next selection;
\* after the last one the caller goes on
DbtRun(p) ==
    /\ pc[p] \in Transforming
    /\ selections[p] # <<>>
    /\ \E built \in ModelsBuilt :
        LET total == models_built[p] + built
        IN  /\ dbt' = AfterRun(dbt, Head(selections[p]))
            /\ selections' = [selections EXCEPT ![p] = Tail(@)]
            /\ models_built' = [models_built EXCEPT ![p] = total]
            /\ IF Tail(selections[p]) # <<>>
               THEN Stay(p) /\ UNCHANGED result
               ELSE CASE pc[p] = "STAGING_TRANSFORM" ->
                            Goto(p, "FINDING_GAP") /\ UNCHANGED result
                      [] pc[p] = "FINAL_TRANSFORM" ->
                            /\ Goto(p, "DONE")
                            /\ result' = [result EXCEPT ![p] =
                                    [@ EXCEPT !.dbt_models_built = total]]
                      [] OTHER ->
                            /\ Goto(p, "DONE")
                            /\ result' = [result EXCEPT ![p] =
                                    [rows_deleted |-> total_rows[p]]]
    /\ UNCHANGED <<raw_amex_transactions, raw_wealthsimple_transactions,
                   dim_description_categories, request, files_to_process,
                   cursor, total_rows, uncategorized_descriptions,
                   all_results, base, prev, ops,
                   exchanges, web>>

\* a runner that invokes the transform again after an error
DbtFailRetried(p) ==
    /\ pc[p] \in Transforming
    /\ selections[p] # <<>>
    /\ Len(trace[p]) < 9
    /\ Goto(p, pc[p])
    /\ UNCHANGED <<durable, request, files_to_process, cursor, total_rows,
                   uncategorized_descriptions, all_results, selections,
                   models_built, result, base, prev, ops, exchanges, web>>

\* dbt deps or dbt run exits with an error
DbtFail(p) ==
    /\ pc[p] \in Transforming
    /\ selections[p] # <<>>
    /\ Goto(p, "FAILED")
    /\ UNCHANGED <<durable, request, files_to_process, cursor, total_rows,
                   uncategorized_descriptions, all_results, selections,
                   models_built, result, base, prev, ops,
                   exchanges, web>>

\* the final selections in the other order
FinalSelectionsMartsFirst == <<"marts", "intermediate">>

FinalSelections == <<"intermediate", "marts">>

\* step 4: the uncategorized descriptions are queried; with none, steps 5 is
\* skipped
FindGap(p) ==
    /\ pc[p] = "FINDING_GAP"
    /\ LET found == get_uncategorized_descriptions
       IN  /\ uncategorized_descriptions' =
                    [uncategorized_descriptions EXCEPT ![p] = found]
           /\ IF found = <<>>
              THEN /\ Goto(p, "FINAL_TRANSFORM")
                   /\ selections' = [selections EXCEPT ![p] = FinalSelections]
              ELSE /\ Goto(p, "CLASSIFYING")
                   /\ UNCHANGED selections
    /\ cursor' = [cursor EXCEPT ![p] = 0]
    /\ all_results' = [all_results EXCEPT ![p] = <<>>]
    /\ models_built' = [models_built EXCEPT ![p] = 0]
    /\ UNCHANGED <<durable, request, files_to_process, total_rows, result,
                   base, prev, ops,
                   exchanges, web>>

\* the query raises
FindGapFail(p) ==
    /\ pc[p] = "FINDING_GAP"
    /\ Goto(p, "FAILED")
    /\ UNCHANGED <<durable, request, files_to_process, cursor, total_rows,
                   uncategorized_descriptions, all_results, selections,
                   models_built, result, base, prev, ops,
                   exchanges, web>>

\* a loop whose batch lets the exception of the call leave
CategorizeBatchRaising(p, response) ==
    /\ pc[p] = "CLASSIFYING"
    /\ cursor[p] < Len(uncategorized_descriptions[p])
    /\ LET batch == Batch(uncategorized_descriptions[p], cursor[p])
           batch_results == categorize_batch(batch, response)
       IN  /\ all_results' = [all_results EXCEPT ![p] = @ \o batch_results]
           /\ exchanges' = [exchanges EXCEPT ![p] =
                    Append(@, [batch |-> batch, response |-> response,
                               results |-> batch_results])]
    /\ cursor' = [cursor EXCEPT ![p] = @ + batch_size]
    /\ IF response.kind = "raise"
       THEN Goto(p, "FAILED")
       ELSE IF cursor[p] + batch_size >= Len(uncategorized_descriptions[p])
       THEN Goto(p, "MERGING") ELSE Stay(p)
    /\ UNCHANGED <<durable, request, files_to_process, total_rows,
                   uncategorized_descriptions, selections, models_built,
                   result, base, prev, ops, web>>

\* a loop in which a failed batch turns the records of the batches before
\* it into fallback records too
CategorizeBatchSpoiling(p, response) ==
    /\ pc[p] = "CLASSIFYING"
    /\ cursor[p] < Len(uncategorized_descriptions[p])
    /\ LET batch == Batch(uncategorized_descriptions[p], cursor[p])
           batch_results == categorize_batch(batch, response)
           failed == \/ response.kind = "raise"
                     \/ parse_gemini_response(response.text, batch).raised
                            # "no"
       IN  /\ all_results' = [all_results EXCEPT ![p] =
                    IF failed
                    THEN Fallback(SubSeq(uncategorized_descriptions[p], 1,
                                         cursor[p] + Len(batch)))
                    ELSE @ \o batch_results]
           /\ exchanges' = [exchanges EXCEPT ![p] =
                    Append(@, [batch |-> batch, response |-> response,
                               results |-> batch_results])]
    /\ cursor' = [cursor EXCEPT ![p] = @ + batch_size]
    /\ IF cursor[p] + batch_size >= Len(uncategorized_descriptions[p])
       THEN Goto(p, "MERGING") ELSE Stay(p)
    /\ UNCHANGED <<durable, request, files_to_process, total_rows,
                   uncategorized_descriptions, selections, models_built,
                   result, base, prev, ops, web>>

\* categorize_descriptions: one batch of the loop is sent and its records
\* are added to all_results
CategorizeBatch(p, response) ==
    /\ pc[p] = "CLASSIFYING"
    /\ cursor[p] < Len(uncategorized_descriptions[p])
    /\ LET batch == Batch(uncategorized_descriptions[p], cursor[p])
           batch_results == categorize_batch(batch, response)
       IN  /\ all_results' = [all_results EXCEPT ![p] = @ \o batch_results]
           /\ exchanges' = [exchanges EXCEPT ![p] =
                    Append(@, [batch |-> batch, response |-> response,
                               results |-> batch_results])]
    /\ cursor' = [cursor EXCEPT ![p] = @ + batch_size]
    /\ IF cursor[p] + batch_size >= Len(uncategorized_descriptions[p])
       THEN Goto(p, "MERGING") ELSE Stay(p)
    /\ UNCHANGED <<durable, request, files_to_process, total_rows,
                   uncategorized_descriptions, selections, models_built,
                   result, base, prev, ops, web>>

\* categorize_descriptions with no description: [] is returned, no batch sent
CategorizeNone(p) ==
    /\ pc[p] = "CLASSIFYING"
    /\ uncategorized_descriptions[p] = <<>>
    /\ Goto(p, "MERGING")
    /\ UNCHANGED <<durable, request, files_to_process, cursor, total_rows,
                   uncategorized_descriptions, all_results, selections,
                   models_built, result, base, prev, ops, exchanges, web>>

ClassifyInPipeline(p) ==
    /\ pc[p] = "CLASSIFYING"
    /\ cursor[p] < Len(uncategorized_descriptions[p])
    /\ \E response \in PipelineResponses(
            Len(Batch(uncategorized_descriptions[p], cursor[p]))) :
        CategorizeBatch(p, response)

\* the load job of update_category_cache rejects a row whose REQUIRED
\* general_category or detailed_category is null
Loadable(new_categories) ==
    \A i \in DOMAIN new_categories :
        /\ new_categories[i].general_category # None
        /\ new_categories[i].detailed_category # None

\* a merge that adds a fallback entry for each description the classifier
\* returned no record for
UpdateCategoryCachePadded(p) ==
    /\ pc[p] = "MERGING"
    /\ LET got == {all_results[p][i].description_key :
                    i \in DOMAIN all_results[p]}
           missed == SelectSeq(uncategorized_descriptions[p],
                               LAMBDA d : d \notin got)
       IN  dim_description_categories' =
                dim_description_categories \o all_results[p]
                    \o Fallback(missed)
    /\ dbt' = AfterCacheWrite(dbt)
    /\ result' = [result EXCEPT ![p] =
            [@ EXCEPT !.new_categories = Len(all_results[p])]]
    /\ selections' = [selections EXCEPT ![p] = FinalSelections]
    /\ models_built' = [models_built EXCEPT ![p] = 0]
    /\ Goto(p, "FINAL_TRANSFORM")
    /\ UNCHANGED <<raw_amex_transactions, raw_wealthsimple_transactions,
                   request, files_to_process, cursor, total_rows,
                   uncategorized_descriptions, all_results, base, prev, ops,
                   exchanges, web>>

\* a merge after which the descriptions asked are counted as new categories
UpdateCategoryCacheCountingAsked(p) ==
    /\ pc[p] = "MERGING"
    /\ Loadable(all_results[p])
    /\ dim_description_categories' =
            dim_description_categories \o all_results[p]
    /\ dbt' = IF all_results[p] = <<>> THEN dbt ELSE AfterCacheWrite(dbt)
    /\ result' = [result EXCEPT ![p] =
            [@ EXCEPT !.new_categories = Len(uncategorized_descriptions[p])]]
    /\ selections' = [selections EXCEPT ![p] = FinalSelections]
    /\ models_built' = [models_built EXCEPT ![p] = 0]
    /\ Goto(p, "FINAL_TRANSFORM")
    /\ UNCHANGED <<raw_amex_transactions, raw_wealthsimple_transactions,
                   request, files_to_process, cursor, total_rows,
                   uncategorized_descriptions, all_results, base, prev, ops,
                   exchanges, web>>

\* a merge that loads its rows twice
UpdateCategoryCacheTwice(p) ==
    /\ pc[p] = "MERGING"
    /\ Loadable(all_results[p])
    /\ dim_description_categories' =
            dim_description_categories \o all_results[p] \o all_results[p]
    /\ dbt' = IF all_results[p] = <<>> THEN dbt ELSE AfterCacheWrite(dbt)
    /\ result' = [result EXCEPT ![p] =
            [@ EXCEPT !.new_categories = Len(all_results[p])]]
    /\ selections' = [selections EXCEPT ![p] = FinalSelections]
    /\ models_built' = [models_built EXCEPT ![p] = 0]
    /\ Goto(p, "FINAL_TRANSFORM")
    /\ UNCHANGED <<raw_amex_transactions, raw_wealthsimple_transactions,
                   request, files_to_process, cursor, total_rows,
                   uncategorized_descriptions, all_results, base, prev, ops,
                   exchanges, web>>

\* a merge that leaves the Uncategorized fallback records out of the cache
UpdateCategoryCacheWithoutFallback(p) ==
    /\ pc[p] = "MERGING"
    /\ Loadable(all_results[p])
    /\ LET kept == SelectSeq(all_results[p],
                    LAMBDA r : r.general_category # s_Uncategorized)
       IN  /\ dim_description_categories' =
                    dim_description_categories \o kept
           /\ dbt' = IF kept = <<>> THEN dbt ELSE AfterCacheWrite(dbt)
           /\ result' = [result EXCEPT ![p] =
                    [@ EXCEPT !.new_categories = Len(kept)]]
    /\ selections' = [selections EXCEPT ![p] = FinalSelections]
    /\ models_built' = [models_built EXCEPT ![p] = 0]
    /\ Goto(p, "FINAL_TRANSFORM")
    /\ UNCHANGED <<raw_amex_transactions, raw_wealthsimple_transactions,
                   request, files_to_process, cursor, total_rows,
                   uncategorized_descriptions, all_results, base, prev, ops,
                   exchanges, web>>

\* BigQueryManager.update_category_cache, then new_categories is counted
UpdateCategoryCache(p) ==
    /\ pc[p] = "MERGING"
    /\ Loadable(all_results[p])
    /\ dim_description_categories' =
            dim_description_categories \o all_results[p]
    /\ dbt' = IF all_results[p] = <<>> THEN dbt ELSE AfterCacheWrite(dbt)
    /\ result' = [result EXCEPT ![p] =
            [@ EXCEPT !.new_categories = Len(all_results[p])]]
    /\ selections' = [selections EXCEPT ![p] = FinalSelections]
    /\ models_built' = [models_built EXCEPT ![p] = 0]
    /\ Goto(p, "FINAL_TRANSFORM")
    /\ UNCHANGED <<raw_amex_transactions, raw_wealthsimple_transactions,
                   request, files_to_process, cursor, total_rows,
                   uncategorized_descriptions, all_results, base, prev, ops,
                   exchanges, web>>

\* the load job refuses the rows: job.result() raises
UpdateCategoryCacheRejected(p) ==
    /\ pc[p] = "MERGING"
    /\ ~Loadable(all_results[p])
    /\ Goto(p, "FAILED")
    /\ UNCHANGED <<durable, request, files_to_process, cursor, total_rows,
                   uncategorized_descriptions, all_results, selections,
                   models_built, result, base, prev, ops, exchanges, web>>

\* the load job of update_category_cache raises (no job runs for no rows)
UpdateCategoryCacheFail(p) ==
    /\ pc[p] = "MERGING"
    /\ all_results[p] # <<>>
    /\ Goto(p, "FAILED")
    /\ UNCHANGED <<durable, request, files_to_process, cursor, total_rows,
                   uncategorized_descriptions, all_results, selections,
                   models_built, result, base, prev, ops,
                   exchanges, web>>


\* DataProcessor.delete_file_data is entered
StartDeleteFileData(p, file_path) ==
    /\ Ended(p)
    /\ ops < MaxOps
    /\ ops' = ops + 1
    /\ Remember(p)
    /\ Snapshot(p)
    /\ request' = [request EXCEPT ![p] =
            [op |-> "delete_file_data", file_path |-> file_path]]
    /\ pc' = [pc EXCEPT ![p] = "FORGETTING"]
    /\ trace' = [trace EXCEPT ![p] = <<"FORGETTING">>]
    /\ files_to_process' = [files_to_process EXCEPT ![p] = <<>>]
    /\ cursor' = [cursor EXCEPT ![p] = 1]
    /\ total_rows' = [total_rows EXCEPT ![p] = 0]
    /\ uncategorized_descriptions' =
            [uncategorized_descriptions EXCEPT ![p] = <<>>]
    /\ all_results' = [all_results EXCEPT ![p] = <<>>]
    /\ exchanges' = [exchanges EXCEPT ![p] = <<>>]
    /\ selections' = [selections EXCEPT ![p] = <<>>]
    /\ models_built' = [models_built EXCEPT ![p] = 0]
    /\ result' = [result EXCEPT ![p] = [rows_deleted |-> 0]]
    /\ UNCHANGED <<durable, web>>

\* a DELETE whose WHERE names the wrong column
Without_by_row_hash(table, file_hash) ==
    SelectSeq(table, LAMBDA row : row.row_hash # file_hash)

\* DELETE FROM table WHERE file_hash = @file_hash: the rows that stay
Without(table, file_hash) ==
    SelectSeq(table, LAMBDA row : row.file_hash # file_hash)

ForgetSelections == <<"staging", "intermediate", "marts">>

\* a forget that also deletes the cache entries of the file's descriptions
DeleteFromTableAndCache(p) ==
    /\ pc[p] = "FORGETTING"
    /\ LET file_hash == get_file_hash(request[p].file_path)
           table == IF cursor[p] = 1 THEN raw_amex_transactions
                    ELSE raw_wealthsimple_transactions
           rows_deleted == CountWhere(table, file_hash)
       IN  /\ raw_amex_transactions' =
                    IF cursor[p] = 1 THEN Without(table, file_hash)
                    ELSE raw_amex_transactions
           /\ raw_wealthsimple_transactions' =
                    IF cursor[p] = 2 THEN Without(table, file_hash)
                    ELSE raw_wealthsimple_transactions
           /\ dbt' = IF rows_deleted = 0 THEN dbt ELSE AfterRawWrite(dbt)
           /\ total_rows' = [total_rows EXCEPT ![p] = @ + rows_deleted]
    /\ cursor' = [cursor EXCEPT ![p] = @ + 1]
    /\ IF cursor[p] = 2
       THEN /\ Goto(p, "FORGET_TRANSFORM")
            /\ selections' = [selections EXCEPT ![p] = ForgetSelections]
       ELSE /\ Stay(p)
            /\ UNCHANGED selections
    /\ dim_description_categories' =
            SelectSeq(dim_description_categories,
                      LAMBDA entry :
                        \A i \in DOMAIN Blob(request[p].file_path) :
                            entry.description_key
                                # py_description_key(
                                        Blob(request[p].file_path)[i]))
    /\ UNCHANGED <<request, files_to_process,
                   uncategorized_descriptions, all_results, models_built,
                   result, base, prev, ops,
                   exchanges, web>>

\* BigQueryManager.delete_file_data: the DELETE on the next of the two raw
\* tables (total_rows holds total_deleted); after the second, dbt is next
DeleteFromTable(p) ==
    /\ pc[p] = "FORGETTING"
    /\ LET file_hash == get_file_hash(request[p].file_path)
           table == IF cursor[p] = 1 THEN raw_amex_transactions
                    ELSE raw_wealthsimple_transactions
           rows_deleted == CountWhere(table, file_hash)
       IN  /\ raw_amex_transactions' =
                    IF cursor[p] = 1 THEN Without(table, file_hash)
                    ELSE raw_amex_transactions
           /\ raw_wealthsimple_transactions' =
                    IF cursor[p] = 2 THEN Without(table, file_hash)
                    ELSE raw_wealthsimple_transactions
           /\ dbt' = IF rows_deleted = 0 THEN dbt ELSE AfterRawWrite(dbt)
           /\ total_rows' = [total_rows EXCEPT ![p] = @ + rows_deleted]
    /\ cursor' = [cursor EXCEPT ![p] = @ + 1]
    /\ IF cursor[p] = 2
       THEN /\ Goto(p, "FORGET_TRANSFORM")
            /\ selections' = [selections EXCEPT ![p] = ForgetSelections]
       ELSE /\ Stay(p)
            /\ UNCHANGED selections
    /\ UNCHANGED <<dim_description_categories, request, files_to_process,
                   uncategorized_descriptions, all_results, models_built,
                   result, base, prev, ops,
                   exchanges, web>>

\* the download or a DELETE raises
DeleteFail(p) ==
    /\ pc[p] = "FORGETTING"
    /\ Goto(p, "FAILED")
    /\ UNCHANGED <<durable, request, files_to_process, cursor, total_rows,
                   uncategorized_descriptions, all_results, selections,
                   models_built, result, base, prev, ops,
                   exchanges, web>>

\* ----------------------------------------------------------- specification

NoOperation == [request |-> NoRequest, trace |-> <<>>, total_rows |-> 0]

\* the service after construction: empty tables, no operation
Constructed ==
    /\ raw_amex_transactions = <<>>
    /\ raw_wealthsimple_transactions = <<>>
    /\ dim_description_categories = <<>>
    /\ dbt = [since_raw |-> Tags, since_cache |-> Tags]
    /\ pc = [p \in Procs |-> "IDLE"]
    /\ request = [p \in Procs |-> NoRequest]
    /\ files_to_process = [p \in Procs |-> <<>>]
    /\ cursor = [p \in Procs |-> 1]
    /\ total_rows = [p \in Procs |-> 0]
    /\ uncategorized_descriptions = [p \in Procs |-> <<>>]
    /\ all_results = [p \in Procs |-> <<>>]
    /\ exchanges = [p \in Procs |-> <<>>]
    /\ dim_categories = <<>>
    /\ responses = <<>>
    /\ selections = [p \in Procs |-> <<>>]
    /\ models_built = [p \in Procs |-> 0]
    /\ result = [p \in Procs |-> ZeroResult]
    /\ trace = [p \in Procs |-> <<>>]
    /\ base = [p \in Procs |-> [amex |-> 0, wealthsimple |-> 0, cache |-> 0]]
    /\ prev = NoOperation
    /\ ops = 0

\* the service deployed with its configuration
Init == Constructed /\ GCP_PROJECT_ID = TRUE

\* one step of the operation process p runs
Step(p) ==
    \/ FilterFile(p)
    \/ FilterFail(p)
    \/ FilterDone(p)
    \/ LoadFile(p)
    \/ LoadFail(p)
    \/ DbtRun(p)
    \/ DbtFail(p)
    \/ FindGap(p)
    \/ FindGapFail(p)
    \/ ClassifyInPipeline(p)
    \/ UpdateCategoryCache(p)
    \/ UpdateCategoryCacheFail(p)
    \/ DeleteFromTable(p)
    \/ DeleteFail(p)

\* a caller starts an operation on process p
Call(p) ==
    \/ \E req \in Requests : StartProcessFiles(p, req)
    \/ \E file_path \in ForgetPaths : StartDeleteFileData(p, file_path)

\* sequential use: one operation at a time, each started after the one
\* before it ended
Next == Call(1) \/ Step(1)

Spec == Init /\ [][Next]_vars

\* ------------------------------------------------------ repeated invocation

\* the file lists of a caller that invokes the pipeline again and again: the
\* bulk statement, a second statement, a file without rows
LiveRequests ==
    {Request("amex", <<"bulk.csv">>, FALSE),
     Request("wealthsimple", <<"b.csv">>, FALSE),
     Request("amex", <<"empty.csv">>, FALSE)}

\* the model answers each batch with one object per description
ClassifyEach(p) ==
    /\ pc[p] = "CLASSIFYING"
    /\ cursor[p] < Len(uncategorized_descriptions[p])
    /\ LET n == Len(Batch(uncategorized_descriptions[p], cursor[p]))
       IN  CategorizeBatch(p, [kind |-> "text",
                               text |-> ArrayText(GoodArray(n))])

\* the caller invokes process_files once more
Reinvoke(p) ==
    /\ \E req \in LiveRequests : EnterProcessFiles(p, req)
    /\ UNCHANGED ops

\* the steps of an invocation in which nothing fails
Complete(p) ==
    \/ FilterFile(p)
    \/ FilterDone(p)
    \/ LoadFile(p)
    \/ DbtRun(p)
    \/ FindGap(p)
    \/ ClassifyEach(p)
    \/ UpdateCategoryCache(p)

NextLive == Reinvoke(1) \/ Complete(1)

\* the caller never stops invoking and every invocation completes: a caller
\* that may invoke does, and steps of NextLive keep being taken
SpecLive ==
    /\ Init
    /\ [][NextLive]_vars
    /\ WF_vars(Reinvoke(1))
    /\ []<><<NextLive>>_vars

\* ------------------------------------------------------------ termination

\* the file lists of a caller whose invocations may fail: the bulk
\* statement (a backlog of more than GapLimit keys) and a list of two files
TerminatingRequests ==
    {Request("amex", <<"bulk.csv">>, FALSE),
     Request("wealthsimple", <<"a_copy.csv", "b.csv">>, FALSE)}

\* the model answers the batch with one object per description, or the call
\* for the first batch raises
ClassifyOrRaise(p) ==
    \/ ClassifyEach(p)
    \/ /\ pc[p] = "CLASSIFYING"
       /\ cursor[p] = 0
       /\ cursor[p] < Len(uncategorized_descriptions[p])
       /\ CategorizeBatch(p, [kind |-> "raise"])

\* a step of process_files: every external call returns or raises
Proceed(p) ==
    \/ FilterFile(p)
    \/ FilterFail(p)
    \/ FilterDone(p)
    \/ LoadFile(p)
    \/ LoadFail(p)
    \/ DbtRun(p)
    \/ DbtFail(p)
    \/ FindGap(p)
    \/ FindGapFail(p)
    \/ ClassifyOrRaise(p)
    \/ UpdateCategoryCache(p)
    \/ UpdateCategoryCacheFail(p)

\* the caller invokes process_files after the invocation before has ended
InvokeAgain(p) ==
    /\ \E req \in TerminatingRequests : EnterProcessFiles(p, req)
    /\ UNCHANGED ops

NextTerminating == InvokeAgain(1) \/ Proceed(1)

\* no call hangs: a step is always possible (a running invocation has a
\* call that returns or raises, an ended one is followed by the next), and
\* steps keep being taken
SpecTerminating ==
    /\ Init
    /\ [][NextTerminating]_vars
    /\ []<><<NextTerminating>>_vars


\* ---------------------------------------------------- concurrent invocation

\* the requests of two callers whose file lists share the bytes of a.csv
ConcurrentRequests ==
    {Request("amex", <<"a.csv">>, FALSE),
     Request("wealthsimple", <<"a_copy.csv", "b.csv">>, FALSE)}

\* an HTTP request reaches an idle worker
Invoke(p) ==
    /\ pc[p] = "IDLE"
    /\ \E req \in ConcurrentRequests : StartProcessFiles(p, req)

\* two invocations run at once, their steps interleaved in any order
NextConcurrent == \E p \in Procs : Invoke(p) \/ Complete(p)

SpecConcurrent == Init /\ [][NextConcurrent]_vars

\* ------------------------------------------------------------ HTTP service

\* a request body: whether it is JSON, the keys it has and their values
Body(is_json, keys, institution, file_paths, force_reprocess) ==
    [is_json |-> is_json, keys |-> keys, institution |-> institution,
     file_paths |-> file_paths, force_reprocess |-> force_reprocess]

NotJson == Body(FALSE, {}, "", <<>>, FALSE)

AllKeys == {"institution", "file_paths", "force_reprocess"}

\* the bodies posted to /process-data
Bodies ==
    {NotJson,
     Body(TRUE, {"file_paths", "force_reprocess"}, "", <<"a.csv">>, FALSE),
     Body(TRUE, {"institution"}, "amex", <<>>, FALSE),
     Body(TRUE, AllKeys, "amex", <<"a.csv">>, FALSE),
     Body(TRUE, {"institution", "file_paths"}, "wealthsimple", <<"b.csv">>,
          FALSE),
     Body(TRUE, AllKeys, "amex", <<"notes.txt">>, FALSE),
     Body(TRUE, {"institution", "file_paths"}, "amex", <<"nocols.csv">>,
          FALSE),
     Body(TRUE, AllKeys, "chase", <<"a.csv">>, FALSE),
     Body(TRUE, AllKeys, "amex", <<"a2.csv">>, FALSE),
     Body(TRUE, AllKeys, "amex", <<"a.csv", "notes.txt">>, TRUE),
     Body(TRUE, AllKeys, "amex", <<"a.csv", "a_copy.csv">>, FALSE)}

\* the required fields the body lacks
MissingFields(body) == {"institution", "file_paths"} \ body.keys

\* every request is answered before the next one is taken
Answered == Len(responses) = ops

\* a response: the status, the body it answers, the exception behind it,
\* the result and the number of categories its JSON carries
Response(endpoint, status, body, error, res, categories) ==
    [endpoint |-> endpoint, status |-> status, body |-> body,
     error |-> error, result |-> res, categories |-> categories]

Respond(r) == responses' = Append(responses, r)

\* a service that checks the body after the staging transform ran
ProcessDataRunningFirst(p, body) ==
    /\ Ended(p)
    /\ Answered
    /\ ops < MaxOps
    /\ ops' = ops + 1
    /\ ~body.is_json \/ MissingFields(body) # {} \/ ~GCP_PROJECT_ID
    /\ dbt' = AfterRun(dbt, "staging")
    /\ Respond(Response("/process-data", 400, body, "BadRequest",
                        ZeroResult, 0))
    /\ UNCHANGED <<raw_amex_transactions, raw_wealthsimple_transactions,
                   dim_description_categories, locals, base, prev,
                   dim_categories, GCP_PROJECT_ID>>

\* process_data answers before a DataProcessor exists: the body is not JSON
\* or lacks a required field (400), GCP_PROJECT_ID is not set (500)
ProcessDataRefused(p, body) ==
    /\ Ended(p)
    /\ Answered
    /\ ops < MaxOps
    /\ ops' = ops + 1
    /\ ~body.is_json \/ MissingFields(body) # {} \/ ~GCP_PROJECT_ID
    /\ Respond(IF ~body.is_json
               THEN Response("/process-data", 400, body, "NotJson",
                             ZeroResult, 0)
               ELSE IF MissingFields(body) # {}
               THEN Response("/process-data", 400, body, "MissingField",
                             ZeroResult, 0)
               ELSE Response("/process-data", 500, body, "NoProject",
                             ZeroResult, 0))
    /\ UNCHANGED <<durable, locals, base, prev, dim_categories,
                   GCP_PROJECT_ID>>

\* process_data builds the DataProcessor and calls process_files
ProcessDataAccepted(p, body) ==
    /\ Answered
    /\ body.is_json
    /\ MissingFields(body) = {}
    /\ GCP_PROJECT_ID
    /\ StartProcessFiles(p,
            Request(body.institution, body.file_paths,
                    IF "force_reprocess" \in body.keys
                    THEN body.force_reprocess ELSE FALSE))

\* POST /process-data arrives
ProcessData(p) ==
    \E body \in Bodies :
        \/ ProcessDataRefused(p, body)
        \/ ProcessDataAccepted(p, body)

\* the body the request of process p was made of
BodyOf(req) ==
    CHOOSE body \in Bodies :
        /\ body.is_json
        /\ MissingFields(body) = {}
        /\ body.institution = req.institution
        /\ body.file_paths = req.file_paths

\* the exception that left process_files, "no" when it returned
ErrorOf(p) ==
    IF pc[p] = "DONE" THEN "no"
    ELSE IF /\ trace[p][Len(trace[p]) - 1] = "LOADING"
            /\ parse_file_error(files_to_process[p][cursor[p]],
                                request[p].institution) # "no"
    THEN parse_file_error(files_to_process[p][cursor[p]],
                          request[p].institution)
    ELSE "Exception"

\* process_data returns: 200 with the result, or 500 for any exception
ProcessDataReturn(p) ==
    /\ ~Answered
    /\ pc[p] \in {"DONE", "FAILED"}
    /\ Respond(IF pc[p] = "DONE"
               THEN Response("/process-data", 200, BodyOf(request[p]), "no",
                             result[p], 0)
               ELSE Response("/process-data", 500, BodyOf(request[p]),
                             ErrorOf(p), ZeroResult, 0))
    /\ UNCHANGED <<durable, locals, base, prev, ops, dim_categories,
                   GCP_PROJECT_ID>>

\* len(categories_data) of init_categories
TaxonomySize == 60

\* the rows initialize_categories makes of categories_data
TaxonomyRows ==
    [i \in 1..TaxonomySize |->
        [category_id |-> i, category |-> i, is_active |-> TRUE]]

\* a seeding that does not look at the table first
initialize_categories_unchecked == dim_categories \o TaxonomyRows

\* BigQueryManager.initialize_categories: the table after the call
initialize_categories ==
    IF Len(dim_categories) > 0 THEN dim_categories
    ELSE dim_categories \o TaxonomyRows

\* POST /init-categories: 500 when GCP_PROJECT_ID is not set or the call
\* raises, else the table is seeded and the message names
\* len(categories_data)
InitCategories(p) ==
    /\ Ended(p)
    /\ Answered
    /\ ops < MaxOps
    /\ ops' = ops + 1
    /\ \E raises \in BOOLEAN :
        IF ~GCP_PROJECT_ID
        THEN /\ Respond(Response("/init-categories", 500, NotJson,
                                 "NoProject", ZeroResult, 0))
             /\ UNCHANGED dim_categories
        ELSE IF raises
        THEN /\ Respond(Response("/init-categories", 500, NotJson,
                                 "Exception", ZeroResult, 0))
             /\ UNCHANGED dim_categories
        ELSE /\ dim_categories' = initialize_categories
             /\ Respond(Response("/init-categories", 200, NotJson, "no",
                                 ZeroResult, TaxonomySize))
    /\ UNCHANGED <<durable, locals, base, prev, GCP_PROJECT_ID>>

\* the service takes one request at a time
NextHttp ==
    \/ ProcessData(1)
    \/ ProcessDataReturn(1)
    \/ InitCategories(1)
    \/ Complete(1)
    \/ LoadInvalid(1)

\* the service deployed with or without GCP_PROJECT_ID
HttpInit == Constructed /\ GCP_PROJECT_ID \in BOOLEAN

HttpSpec == HttpInit /\ [][NextHttp]_vars

\* ------------------------------------------------------------ the gap query

\* rows per raw table and entries of the cache in the tables the query is
\* applied to
MaxRows == 2

\* descriptions of stored rows: upper and lower case, whitespace around, a
\* blank, an empty one, NULL
Descriptions ==
    {s_UBER, s_uber_sp, s_sp_Starbucks, s_STARBUCKS, s_blank, s_empty, NULL}

RawRow(description) ==
    [file_name |-> "loaded.csv", file_hash |-> 0,
     description |-> description, row_hash |-> 0, is_processed |-> FALSE]

\* the sequences over S of length at most n
SeqsUpTo(S, n) == UNION {[1..k -> S] : k \in 0..n}

\* the rows of the bulk statement, last description first
BulkTable == [i \in 1..BulkRows |-> RawRow(BulkDescription(BulkRows + 1 - i))]

RawRows(descriptions) ==
    [i \in DOMAIN descriptions |-> RawRow(descriptions[i])]

\* contents of raw_amex_transactions: a few rows, or the bulk statement and
\* at most one more row
AmexTables ==
    {RawRows(ds) : ds \in SeqsUpTo(Descriptions, MaxRows)}
    \cup {BulkTable \o RawRows(ds) :
                ds \in {<<>>, <<s_sp_Starbucks>>, <<s_uber_sp>>}}

WealthsimpleTables == {RawRows(ds) : ds \in SeqsUpTo(Descriptions, 1)}

\* description keys of cache entries: as the classifier writes them, and as
\* another writer may
CachedKeys == {s_UBER, s_uber_sp, BulkDescription(1)}

CacheEntry(key) == [FallbackRecord(key) EXCEPT !.description_key = key]

CacheTables ==
    {[i \in DOMAIN ks |-> CacheEntry(ks[i])] :
        ks \in SeqsUpTo(CachedKeys, MaxRows)}

\* process 1 is about to query the uncategorized descriptions of some
\* contents of the three tables
GapInit ==
    /\ raw_amex_transactions \in AmexTables
    /\ raw_wealthsimple_transactions \in WealthsimpleTables
    /\ dim_description_categories \in CacheTables
    /\ Len(raw_amex_transactions) > MaxRows
        => /\ raw_wealthsimple_transactions = <<>>
           /\ Len(dim_description_categories) <= 1
    /\ dbt = [since_raw |-> {"staging"}, since_cache |-> {"staging"}]
    /\ pc = [p \in Procs |-> IF p = 1 THEN "FINDING_GAP" ELSE "IDLE"]
    /\ request = [p \in Procs |->
            IF p = 1 THEN Request("amex", <<"a.csv">>, TRUE) ELSE NoRequest]
    /\ files_to_process = [p \in Procs |->
            IF p = 1 THEN <<"a.csv">> ELSE <<>>]
    /\ cursor = [p \in Procs |-> 1]
    /\ total_rows = [p \in Procs |-> 0]
    /\ uncategorized_descriptions = [p \in Procs |-> <<>>]
    /\ all_results = [p \in Procs |-> <<>>]
    /\ exchanges = [p \in Procs |-> <<>>]
    /\ dim_categories = <<>>
    /\ responses = <<>>
    /\ GCP_PROJECT_ID = TRUE
    /\ selections = [p \in Procs |-> <<>>]
    /\ models_built = [p \in Procs |-> 0]
    /\ result = [p \in Procs |-> ZeroResult]
    /\ trace = [p \in Procs |->
            IF p = 1
            THEN <<"FILTERING", "LOADING", "STAGING_TRANSFORM", "FINDING_GAP">>
            ELSE <<>>]
    /\ base = [p \in Procs |-> [amex |-> 0, wealthsimple |-> 0, cache |-> 0]]
    /\ prev = NoOperation
    /\ ops = 1

NextGap == FindGap(1)

GapSpec == GapInit /\ [][NextGap]_vars

\* ---------------------------------------------------------- the classifier

\* descriptions handed to categorize_descriptions in one call
MaxDescriptions == 45

\* the array a with its element i replaced by x
Replaced(a, i, x) == [j \in DOMAIN a |-> IF j = i THEN x ELSE a[j]]

JsonText(json) == [fence |-> "json", json |-> json]

\* the array a, last element first
Reversed(a) == [j \in DOMAIN a |-> a[Len(a) + 1 - j]]

\* what the model may do with a batch of n descriptions: the call raises; the
\* text is not JSON; the JSON is a number, null, an object; an array that is
\* short, exact or long; the objects in the reverse of the order asked; an
\* array with an element that is no object, with null or missing fields,
\* with a confidence_score that is no number
ClassifierResponses(n) ==
    {[kind |-> "raise"]}
    \cup {[kind |-> "text", text |-> JsonText(j)] :
            j \in {[t |-> "invalid"], [t |-> "number"], [t |-> "null"],
                   [t |-> "object", keys |-> 0],
                   [t |-> "object", keys |-> 1]}}
    \cup {[kind |-> "text", text |-> ArrayText(GoodArray(k))] :
            k \in {n - 1, n, n + 1}}
    \cup {[kind |-> "text", text |-> ArrayText(Replaced(GoodArray(n), i, x))] :
            i \in {1, n},
            x \in {JScalar,
                   JObject(JNull, JStr("Rideshare"), JNum(90)),
                   JObject(JStr("Transportation"), JNull, JNum(90)),
                   JObject(JAbsent, JAbsent, JAbsent),
                   JObject(JStr("Transportation"), JStr("Rideshare"),
                           JStr("high")),
                   JObject(JStr("Transportation"), JStr("Rideshare"),
                           JNull)}}
    \cup {[kind |-> "text",
           text |-> ArrayText(Append(GoodArray(n), JScalar))],
          [kind |-> "text", text |-> ArrayText(Reversed(GoodArray(n)))]}

\* categorize_descriptions is called with the first n keys of the bulk
\* statement, n from 0 to MaxDescriptions
ClassifierInit ==
    /\ \E n \in 0..MaxDescriptions :
        /\ uncategorized_descriptions = [p \in Procs |->
                IF p = 1 THEN [i \in 1..n |-> BulkDescription(i)] ELSE <<>>]
        /\ raw_amex_transactions =
                RawRows([i \in 1..n |-> BulkDescription(i)])
    /\ raw_wealthsimple_transactions = <<>>
    /\ dim_description_categories = <<>>
    /\ dbt = [since_raw |-> {"staging"}, since_cache |-> {"staging"}]
    /\ pc = [p \in Procs |-> IF p = 1 THEN "CLASSIFYING" ELSE "IDLE"]
    /\ request = [p \in Procs |->
            IF p = 1 THEN Request("amex", <<"a.csv">>, TRUE) ELSE NoRequest]
    /\ files_to_process = [p \in Procs |->
            IF p = 1 THEN <<"a.csv">> ELSE <<>>]
    /\ cursor = [p \in Procs |-> 0]
    /\ total_rows = [p \in Procs |-> 0]
    /\ all_results = [p \in Procs |-> <<>>]
    /\ exchanges = [p \in Procs |-> <<>>]
    /\ dim_categories = <<>>
    /\ responses = <<>>
    /\ GCP_PROJECT_ID = TRUE
    /\ selections = [p \in Procs |-> <<>>]
    /\ models_built = [p \in Procs |-> 0]
    /\ result = [p \in Procs |-> ZeroResult]
    /\ trace = [p \in Procs |->
            IF p = 1
            THEN <<"FILTERING", "LOADING", "STAGING_TRANSFORM", "FINDING_GAP",
                   "CLASSIFYING">>
            ELSE <<>>]
    /\ base = [p \in Procs |-> [amex |-> 0, wealthsimple |-> 0, cache |-> 0]]
    /\ prev = NoOperation
    /\ ops = 1

\* the model answers a batch in any of these ways
ClassifyAnyAnswer(p) ==
    /\ pc[p] = "CLASSIFYING"
    /\ cursor[p] < Len(uncategorized_descriptions[p])
    /\ \E response \in ClassifierResponses(
            Len(Batch(uncategorized_descriptions[p], cursor[p]))) :
        CategorizeBatch(p, response)

NextClassifier ==
    \/ ClassifyAnyAnswer(1)
    \/ CategorizeNone(1)
    \/ UpdateCategoryCache(1)
    \/ UpdateCategoryCacheRejected(1)

ClassifierSpec == ClassifierInit /\ [][NextClassifier]_vars

\* ------------------------------------------------------------- observation

Last(seq) == seq[Len(seq)]

Processing(p) == request[p].op = "process_files"

Forgetting(p) == request[p].op = "delete_file_data"

\* the previous operation was process_files with the arguments of p's
SameAsPrevious(p) == prev.request = request[p]

\* the rows process p's invocation has appended (sequential use)
Appended(p) ==
    SubSeq(raw_amex_transactions, base[p].amex + 1,
           Len(raw_amex_transactions))
    \o SubSeq(raw_wealthsimple_transactions, base[p].wealthsimple + 1,
              Len(raw_wealthsimple_transactions))

\* the rows process p's invocation found in the raw tables
Found(p) ==
    SubSeq(raw_amex_transactions, 1, base[p].amex)
    \o SubSeq(raw_wealthsimple_transactions, 1, base[p].wealthsimple)

SameBytes(f, g) == Blob(f) = Blob(g)

\* the filter of p's invocation has returned
Filtered(p) == Processing(p) /\ Len(trace[p]) > 1

\* -------------------------------------------------------------- properties

\* C1: a second process_files invocation with the file list of a completed
\* one, both with force_reprocess = false, returns files_processed = 0 and
\* rows_inserted = 0 and appends no raw row.
C1_Idempotence ==
    \A p \in Procs :
        (/\ pc[p] = "DONE"
         /\ Processing(p)
         /\ ~request[p].force_reprocess
         /\ SameAsPrevious(p)
         /\ Last(prev.trace) = "DONE")
        => /\ result[p].files_processed = 0
           /\ result[p].rows_inserted = 0
           /\ Appended(p) = <<>>

\* the state a failure-free run over p's file list leaves: the rows of every
\* listed file stored, every description key cached, the staging transform
\* run since the last raw write and the final transforms since the last write
Converged(p) ==
    /\ \A i \in DOMAIN request[p].file_paths :
        LET file_path == request[p].file_paths[i]
        IN  CountWhere(RawTables, get_file_hash(file_path))
                = Len(Blob(file_path))
    /\ get_uncategorized_descriptions = <<>>
    /\ "staging" \in dbt.since_raw
    /\ Range(FinalSelections) \subseteq (dbt.since_raw \cap dbt.since_cache)

\* C2: when an invocation failed and the caller re-invokes process_files with
\* the same file list and force_reprocess = false, the invocation that
\* succeeds leaves the durable state of a failure-free run: each file's rows
\* stored once, the descriptions classified, the transforms executed.
C2_Restartable ==
    \A p \in Procs :
        (/\ pc[p] = "DONE"
         /\ Processing(p)
         /\ ~request[p].force_reprocess
         /\ SameAsPrevious(p)
         /\ Last(prev.trace) = "FAILED")
        => Converged(p)

\* C3: categorize_descriptions returns one record per description, the i-th
\* record for the i-th description, whatever the model answers.
C3_TotalCoverage ==
    \A p \in Procs :
        pc[p] = "MERGING"
        => /\ Len(all_results[p]) = Len(uncategorized_descriptions[p])
           /\ \A i \in DOMAIN all_results[p] :
                all_results[p][i].original_description
                    = uncategorized_descriptions[p][i]

CacheKeys ==
    {description_key(dim_description_categories[i].description_key) :
        i \in DOMAIN dim_description_categories}

\* C4: in sequential use the category cache never holds two entries with the
\* same normalized description_key, and what a merge is about to insert are
\* distinct keys that the cache does not hold.
C4_CacheKeysUnique ==
    LET keys == [i \in DOMAIN dim_description_categories |->
                    description_key(
                        dim_description_categories[i].description_key)]
    IN  /\ \A i, j \in DOMAIN keys : keys[i] = keys[j] => i = j
        /\ \A p \in Procs :
            pc[p] = "MERGING"
            => LET new == [i \in DOMAIN all_results[p] |->
                            description_key(
                                all_results[p][i].description_key)]
               IN  /\ \A i \in DOMAIN new : new[i] \notin Range(keys)
                   /\ \A i, j \in DOMAIN new : new[i] = new[j] => i = j

\* a merge into a cache that already holds the key of a description of the
\* raw tables (UBER, stored as "Uber" and as "uber"), with a new key to add
C4_Witness ==
    /\ pc[1] = "MERGING"
    /\ s_UBER \in CacheKeys
    /\ \E i \in DOMAIN RawTables : RawTables[i].description = s_uber
    /\ \E i \in DOMAIN all_results[1] :
        all_results[1][i].description_key = s_NETFLIX

\* C6: with force_reprocess = false, a listed file whose bytes are those of a
\* file with rows in a raw table is filtered out, whatever its path: it is
\* not in files_to_process, files_processed does not count it and none of
\* its rows is appended.
C6_ContentAddressed ==
    \A p \in Procs :
        (Processing(p) /\ ~request[p].force_reprocess)
        => LET stored(file_path) ==
                    \E j \in DOMAIN Found(p) :
                        SameBytes(file_path, Found(p)[j].file_name)
               fresh == {i \in DOMAIN request[p].file_paths :
                            ~stored(request[p].file_paths[i])}
           IN  /\ \A i \in DOMAIN files_to_process[p] :
                    ~stored(files_to_process[p][i])
               /\ \A i \in DOMAIN Appended(p) :
                    ~stored(Appended(p)[i].file_name)
               /\ result[p].files_processed <= Cardinality(fresh)

\* a.csv was ingested; a completed invocation listed the same bytes as
\* a_copy.csv and b.csv, and counted and appended b.csv alone
C6_Witness ==
    /\ pc[1] = "DONE"
    /\ Processing(1)
    /\ request[1].file_paths = <<"a_copy.csv", "b.csv">>
    /\ \E j \in DOMAIN Found(1) : Found(1)[j].file_name = "a.csv"
    /\ \A i \in DOMAIN RawTables : RawTables[i].file_name # "a_copy.csv"
    /\ result[1].files_processed = 1
    /\ Appended(1) # <<>>

\* C7: file_already_processed(h) is true exactly when a row of the amex table
\* or of the wealthsimple table carries file_hash h, whatever the institution
\* of the request; the filter keeps a file exactly when it is false.
C7_LedgerAcrossTables ==
    /\ \A file_path \in Paths :
        file_already_processed(get_file_hash(file_path))
        <=> \E row \in Range(raw_amex_transactions)
                        \cup Range(raw_wealthsimple_transactions) :
                row.file_hash = get_file_hash(file_path)
    /\ \A p \in Procs :
        (Processing(p) /\ ~request[p].force_reprocess
            /\ pc[p] = "FILTERING")
        => \A j \in 1..(cursor[p] - 1) :
            (request[p].file_paths[j] \in Range(files_to_process[p]))
            <=> ~\E row \in Range(raw_amex_transactions)
                            \cup Range(raw_wealthsimple_transactions) :
                    row.file_hash = get_file_hash(request[p].file_paths[j])

\* an amex request whose file has rows in the wealthsimple table only, and
\* the filter has dropped it
C7_Witness ==
    /\ pc[1] = "FILTERING"
    /\ Processing(1)
    /\ request[1].institution = "amex"
    /\ request[1].file_paths = <<"a.csv">>
    /\ cursor[1] = 2
    /\ files_to_process[1] = <<>>
    /\ raw_amex_transactions = <<>>
    /\ raw_wealthsimple_transactions # <<>>

\* C8: once delete_file_data has run its DELETEs for a file, the ledger no
\* longer knows the file's fingerprint, and the next invocation with
\* force_reprocess = false that lists these bytes keeps the file in the
\* filter, counts it and appends its rows.
C8_ForgetReverses ==
    \A p \in Procs :
        /\ (Forgetting(p) /\ "FORGET_TRANSFORM" \in Range(trace[p]))
            => ~file_already_processed(get_file_hash(request[p].file_path))
        /\ (/\ Processing(p)
            /\ ~request[p].force_reprocess
            /\ prev.request.op = "delete_file_data"
            /\ "FORGET_TRANSFORM" \in Range(prev.trace))
            => \A i \in DOMAIN request[p].file_paths :
                LET file_path == request[p].file_paths[i]
                IN  SameBytes(file_path, prev.request.file_path)
                    => /\ (pc[p] = "FILTERING" /\ cursor[p] > i)
                            => file_path \in Range(files_to_process[p])
                       /\ "STAGING_TRANSFORM" \in Range(trace[p])
                            => /\ result[p].files_processed >= 1
                               /\ result[p].rows_inserted
                                    >= Len(Blob(file_path))
                               /\ CountWhere(Appended(p),
                                             get_file_hash(file_path))
                                    = Len(Blob(file_path))

\* a.csv was ingested, forgotten (rows were deleted) and ingested again
C8_Witness ==
    /\ pc[1] = "DONE"
    /\ Processing(1)
    /\ ~request[1].force_reprocess
    /\ prev.request.op = "delete_file_data"
    /\ Last(prev.trace) = "DONE"
    /\ prev.total_rows > 0
    /\ request[1].file_paths = <<"a.csv">>
    /\ result[1].rows_inserted = Len(Blob("a.csv"))
    /\ CountWhere(RawTables, get_file_hash("a.csv")) = Len(Blob("a.csv"))

\* a description upper-cased and trimmed
Normalize(description) == Upper(SqlTrim(description))

\* the gap: the normalized descriptions of the rows of both raw tables whose
\* description is not empty, without those the category cache holds in
\* normalized form
Gap ==
    LET rows == {i \in DOMAIN RawTables :
                    RawTables[i].description \notin {NULL, <<>>}}
        cached == {Normalize(dim_description_categories[i].description_key) :
                    i \in DOMAIN dim_description_categories}
    IN  {Normalize(RawTables[i].description) : i \in rows} \ cached

\* C5: once more than 100 distinct uncategorized keys exist, invoking the
\* pipeline again and again (every invocation completing, one record per
\* description, any file lists) leads to a state in which the query for the
\* uncategorized descriptions returns the empty sequence.
C5_GapCoverage ==
    [](Cardinality(Gap) > GapLimit
        => <>(get_uncategorized_descriptions = <<>>))

\* the query was process p's last step and no table has changed since
JustFound(p) ==
    \/ pc[p] = "CLASSIFYING"
    \/ /\ pc[p] = "FINAL_TRANSFORM"
       /\ trace[p][Len(trace[p]) - 1] = "FINDING_GAP"

\* C9: when the gap has at most 100 keys, the query returns exactly the gap
\* (the distinct upper-cased, trimmed descriptions of the rows of both raw
\* tables with a non-empty description, minus the keys the cache holds in
\* upper-cased, trimmed form), each key once.
C9_GapCorrect ==
    \A p \in Procs :
        (JustFound(p) /\ Cardinality(Gap) <= GapLimit)
        => /\ Range(uncategorized_descriptions[p]) = Gap
           /\ Len(uncategorized_descriptions[p]) = Cardinality(Gap)

\* the tables hold the descriptions "UBER", "uber " and "STARBUCKS" and the
\* cache the key "UBER": the query returned "STARBUCKS" alone
C9_Witness ==
    /\ JustFound(1)
    /\ {RawTables[i].description : i \in DOMAIN RawTables}
            = {s_UBER, s_uber_sp, s_STARBUCKS}
    /\ {dim_description_categories[i].description_key :
            i \in DOMAIN dim_description_categories} = {s_UBER}
    /\ uncategorized_descriptions[1] = <<s_STARBUCKS>>

\* C10: the sequence the query returns is in strictly ascending lexical
\* order and has at most 100 elements; when the gap has more than 100 keys
\* it is the 100 smallest keys of the gap.
C10_GapOrdered ==
    \A p \in Procs :
        JustFound(p)
        => LET found == uncategorized_descriptions[p]
           IN  /\ \A i \in 1..(Len(found) - 1) :
                    LexLess(found[i], found[i + 1])
               /\ Len(found) <= GapLimit
               /\ Cardinality(Gap) > GapLimit
                    => /\ Len(found) = GapLimit
                       /\ Range(found) \subseteq Gap
                       /\ \A k \in Gap \ Range(found) :
                            \A i \in DOMAIN found : LexLess(found[i], k)

\* the gap holds the 103 keys of the bulk statement and STARBUCKS: the query
\* returned 100 keys, STARBUCKS first, and left the largest keys out
C10_Witness ==
    /\ JustFound(1)
    /\ Cardinality(Gap) = BulkRows + 1
    /\ Len(uncategorized_descriptions[1]) = GapLimit
    /\ uncategorized_descriptions[1][1] = s_STARBUCKS
    /\ BulkDescription(BulkRows) \notin Range(uncategorized_descriptions[1])

\* the call of the model raised, or its answer is not JSON, not an array of
\* objects, or holds a confidence_score that is no number
FailedExchange(e) ==
    \/ e.response.kind = "raise"
    \/ /\ e.response.kind = "text"
       /\ LET text == e.response.text
          IN  \/ text.fence = "other"
              \/ text.json.t # "array"
              \/ \E i \in DOMAIN text.json.items :
                    LET item == text.json.items[i]
                    IN  \/ item.t # "object"
                        \/ item.confidence_score.t \notin {"num", "absent"}

\* every description of the batch emitted as Uncategorized with confidence 0
IsFallback(batch, records) ==
    /\ Len(records) = Len(batch)
    /\ \A i \in DOMAIN records :
        /\ records[i].original_description = batch[i]
        /\ records[i].general_category = s_Uncategorized
        /\ records[i].detailed_category = s_Uncategorized
        /\ records[i].confidence_score = 0

\* C11: when the call for a chunk raises or the chunk's answer cannot be
\* parsed (not JSON, not an array of objects, a confidence_score that is no
\* number), every description of the chunk is emitted as
\* Uncategorized/Uncategorized with confidence 0.0, and no error leaves
\* categorize_descriptions.
C11_ChunkFallback ==
    \A p \in Procs :
        /\ \A k \in DOMAIN exchanges[p] :
            FailedExchange(exchanges[p][k])
            => IsFallback(exchanges[p][k].batch, exchanges[p][k].results)
        /\ (Len(trace[p]) > 1 /\ Last(trace[p]) = "FAILED")
            => trace[p][Len(trace[p]) - 1] # "CLASSIFYING"

\* C12: no failed call of the model and no answer that cannot be parsed
\* makes process_files fail: CLASSIFYING is never left for FAILED, the
\* records made of a failed exchange are rows the merge accepts, and a merge
\* that is refused was handed a row made of a parsed answer.
C12_ClassifyingAbsorbs ==
    \A p \in Procs :
        /\ (Len(trace[p]) > 1 /\ Last(trace[p]) = "FAILED")
            => /\ trace[p][Len(trace[p]) - 1] # "CLASSIFYING"
               /\ trace[p][Len(trace[p]) - 1] = "MERGING"
                    => \E k \in DOMAIN exchanges[p] :
                        ~FailedExchange(exchanges[p][k])
        /\ \A k \in DOMAIN exchanges[p] :
            FailedExchange(exchanges[p][k])
            => Loadable(exchanges[p][k].results)

\* three chunks, the call raised for one and the text of another was not
\* JSON, every exchange failed: the merge was done, the final transform is next
C12_Witness ==
    /\ pc[1] = "FINAL_TRANSFORM"
    /\ Len(exchanges[1]) = 3
    /\ \A k \in DOMAIN exchanges[1] : FailedExchange(exchanges[1][k])
    /\ exchanges[1][1].response.kind = "raise"
    /\ exchanges[1][2].response.kind = "text"
    /\ exchanges[1][2].response.text.json.t = "invalid"
    /\ Len(dim_description_categories) >= 2 * batch_size
    /\ result[1].new_categories = Len(dim_description_categories)

StatesInOrder ==
    <<"FILTERING", "LOADING", "STAGING_TRANSFORM", "FINDING_GAP",
      "CLASSIFYING", "MERGING", "FINAL_TRANSFORM", "DONE">>

\* C13: an invocation of process_files that does not fail passes through
\* FILTERING, LOADING, STAGING_TRANSFORM, FINDING_GAP, CLASSIFYING, MERGING,
\* FINAL_TRANSFORM, DONE in this order, each state once, none skipped.
C13_StrictlySequential ==
    \A p \in Procs :
        (Processing(p) /\ pc[p] = "DONE") => trace[p] = StatesInOrder

\* the states of process_files in which an error is fatal by the text
FatalStages == {"LOADING", "STAGING_TRANSFORM", "FINAL_TRANSFORM"}

\* C14: an error while loading, in the staging transform or in the final
\* transform ends the invocation in FAILED; FAILED is the last state of the
\* invocation, no state was entered twice before it (the transform is not
\* invoked again), and while the invocation is FAILED no step of it changes
\* the tables or its result: the next step is the start of a new operation.
C14_FatalStageErrors ==
    /\ [](\A p \in Procs :
            /\ \A i, j \in DOMAIN trace[p] :
                    trace[p][i] = trace[p][j] => i = j
            /\ \A i \in DOMAIN trace[p] :
                    trace[p][i] = "FAILED" => (i = Len(trace[p]) /\ pc[p] = "FAILED")
            /\ pc[p] = "FAILED" => Len(trace[p]) > 1)
    /\ [][\A p \in Procs :
            pc[p] = "FAILED"
            => \/ UNCHANGED <<durable, pc[p], result[p], trace[p]>>
               \/ /\ Len(trace'[p]) = 1
                  /\ ops' = ops + 1
                  /\ UNCHANGED durable]_vars

\* an invocation that merged new categories and then failed in the final
\* transform, after its first selection was run
C14_Witness ==
    /\ pc[1] = "FAILED"
    /\ Processing(1)
    /\ trace[1][Len(trace[1]) - 1] = "FINAL_TRANSFORM"
    /\ selections[1] = <<"marts">>
    /\ result[1].new_categories > 0
    /\ result[1].dbt_models_built = 0

\* process p's invocation failed while loading
FailedInLoading(t) ==
    /\ Len(t) > 1
    /\ Last(t) = "FAILED"
    /\ t[Len(t) - 1] = "LOADING"

\* the rows of the files fs[1..n] as parse_file makes them, one file after
\* the other
RECURSIVE RowsOfFiles(_, _, _)
RowsOfFiles(fs, n, institution) ==
    IF n = 0 THEN <<>>
    ELSE RowsOfFiles(fs, n - 1, institution) \o parse_file(fs[n], institution)

\* C15: when an invocation fails in LOADING at position k of its files, the
\* rows of the files before k stay stored and the files from k on have no
\* rows; the retry with the same list and force_reprocess = false keeps only
\* files without rows, and appends the rows of no file that had rows and of
\* no file twice.
C15_NoRollbackNoReappend ==
    \A p \in Procs :
        /\ (Processing(p) /\ FailedInLoading(trace[p]))
            => /\ Appended(p) = RowsOfFiles(files_to_process[p], cursor[p] - 1,
                                            request[p].institution)
               /\ ~request[p].force_reprocess
                    => \A i \in cursor[p]..Len(files_to_process[p]) :
                        CountWhere(RawTables,
                            get_file_hash(files_to_process[p][i])) = 0
        /\ (/\ Processing(p)
            /\ ~request[p].force_reprocess
            /\ SameAsPrevious(p)
            /\ FailedInLoading(prev.trace))
            => /\ Len(trace[p]) > 1
                    => \A i \in DOMAIN files_to_process[p] :
                        CountWhere(Found(p),
                            get_file_hash(files_to_process[p][i])) = 0
               /\ \A i \in DOMAIN Appended(p) :
                    /\ CountWhere(Found(p), Appended(p)[i].file_hash) = 0
                    /\ CountWhere(Appended(p), Appended(p)[i].file_hash)
                            = Len(Blob(Appended(p)[i].file_name))

\* the invocation for a_copy.csv and b.csv failed while loading b.csv, after
\* the rows of a_copy.csv were appended; the retry appended b.csv alone
C15_Witness ==
    /\ pc[1] = "DONE"
    /\ Processing(1)
    /\ request[1].file_paths = <<"a_copy.csv", "b.csv">>
    /\ SameAsPrevious(1)
    /\ FailedInLoading(prev.trace)
    /\ prev.total_rows = Len(Blob("a_copy.csv"))
    /\ result[1].files_processed = 1
    /\ Appended(1) = parse_file("b.csv", "wealthsimple")
    /\ CountWhere(RawTables, get_file_hash("a_copy.csv"))
            = Len(Blob("a_copy.csv"))

\* the table old is the beginning of the table new
IsPrefix(old, new) ==
    /\ Len(old) <= Len(new)
    /\ SubSeq(new, 1, Len(old)) = old

\* C16: no step of process_files, in an invocation that succeeds or fails
\* and with either value of force_reprocess, removes or changes a stored raw
\* row: each raw table before the step is the beginning of the table after.
C16_AppendOnly ==
    [][(\A p \in Procs : request'[p].op # "delete_file_data")
        => /\ IsPrefix(raw_amex_transactions, raw_amex_transactions')
           /\ IsPrefix(raw_wealthsimple_transactions,
                       raw_wealthsimple_transactions')]_vars

\* a forced invocation appended the rows of a.csv to a table that held them
C16_Witness ==
    /\ Processing(1)
    /\ request[1].force_reprocess
    /\ request[1].file_paths = <<"a.csv">>
    /\ Found(1) # <<>>
    /\ Appended(1) = parse_file("a.csv", "amex")
    /\ CountWhere(raw_amex_transactions, get_file_hash("a.csv"))
            = 2 * Len(Blob("a.csv"))

\* process p's filter has kept a file with the bytes of file_path
Kept(p, file_path) ==
    /\ Processing(p)
    /\ \E i \in DOMAIN files_to_process[p] :
            SameBytes(files_to_process[p][i], file_path)

\* C17: two concurrent invocations with force_reprocess = false that list
\* the same not-yet-ingested bytes can both pass the ledger check before
\* either appends, and the rows are then stored twice.  What holds in every
\* interleaving: a file the filter keeps had no rows when the invocation
\* began, and rows are stored twice only when both invocations kept the file.
C17_CheckThenAppendRace ==
    /\ \A p \in Procs :
        Processing(p)
        => \A i \in DOMAIN files_to_process[p] :
            CountWhere(Found(p), get_file_hash(files_to_process[p][i])) = 0
    /\ \A file_path \in Paths :
        LET stored == CountWhere(RawTables, get_file_hash(file_path))
        IN  /\ stored <= Cardinality(Procs) * Len(Blob(file_path))
            /\ stored > Len(Blob(file_path))
                => \A p \in Procs : Kept(p, file_path)

\* both invocations kept the bytes of a.csv, one as a.csv and one as
\* a_copy.csv, and both appended them: the rows are stored twice
C17_Witness ==
    /\ Kept(1, "a.csv") /\ Kept(2, "a.csv")
    /\ \A p \in Procs : ~request[p].force_reprocess
    /\ request[1] # request[2]
    /\ CountWhere(raw_amex_transactions, get_file_hash("a.csv"))
            = Len(Blob("a.csv"))
    /\ CountWhere(raw_wealthsimple_transactions, get_file_hash("a.csv"))
            = Len(Blob("a.csv"))

\* the entries of the category cache with the description key k
Entries(k) ==
    Cardinality({i \in DOMAIN dim_description_categories :
                    dim_description_categories[i].description_key = k})

\* C18: two concurrent invocations that both query the uncategorized
\* descriptions before either merges can both classify and merge the same
\* key, and the cache then holds two entries for it.  What holds in every
\* interleaving: a key has at most one entry per invocation, and two
\* entries only when both invocations found it uncategorized.
C18_CacheMergeRace ==
    \A k \in CacheKeys :
        /\ Entries(k) <= Cardinality(Procs)
        /\ Entries(k) > 1
            => \A p \in Procs : k \in Range(uncategorized_descriptions[p])

\* both invocations found UBER uncategorized and both merged a record for it
C18_Witness ==
    /\ \A p \in Procs : s_UBER \in Range(uncategorized_descriptions[p])
    /\ \A p \in Procs : "FINAL_TRANSFORM" \in Range(trace[p])
    /\ Entries(s_UBER) = 2

\* the classifying loop of process p is over
Classified(p) ==
    /\ Len(trace[p]) > 1
    /\ "MERGING" \in Range(trace[p])

\* the number of requests N descriptions take: ceil(N / batch_size)
RequestsFor(n) == (n + batch_size - 1) \div batch_size

\* C19: N descriptions are sent in ceil(N / 20) requests in input order:
\* request i carries descriptions 20(i-1)+1 .. min(20i, N), so every request
\* has 20 descriptions except the last, which has N mod 20 when that is not
\* zero; no request is sent for N = 0; the batches joined are the input.
C19_BatchChunking ==
    \A p \in Procs :
        LET descriptions == uncategorized_descriptions[p]
            n == Len(descriptions)
            sent == exchanges[p]
        IN  /\ Len(sent) <= RequestsFor(n)
            /\ \A i \in DOMAIN sent :
                /\ sent[i].batch =
                        SubSeq(descriptions, batch_size * (i - 1) + 1,
                               Min2(batch_size * i, n))
                /\ Len(sent[i].batch) =
                        IF i < RequestsFor(n) \/ n % batch_size = 0
                        THEN batch_size ELSE n % batch_size
            /\ Classified(p)
                => /\ Len(sent) = RequestsFor(n)
                   /\ Concat([i \in DOMAIN sent |-> sent[i].batch])
                        = descriptions
                   /\ n = 0 => sent = <<>>

\* 45 descriptions went out as 20, 20 and 5
C19_Witness ==
    /\ Classified(1)
    /\ Len(uncategorized_descriptions[1]) = 45
    /\ [i \in DOMAIN exchanges[1] |-> Len(exchanges[1][i].batch)]
            = <<20, 20, 5>>

\* no description went out, and the loop is over
C19_WitnessEmpty ==
    /\ Classified(1)
    /\ uncategorized_descriptions[1] = <<>>
    /\ exchanges[1] = <<>>

\* C20: every record made of an answer has a general_category and a
\* detailed_category that are not null: a field that is missing or null in
\* the model's object is replaced by Uncategorized.
C20_FieldDefaulting ==
    \A p \in Procs :
        \A i \in DOMAIN all_results[p] :
            /\ all_results[p][i].general_category # None
            /\ all_results[p][i].detailed_category # None

\* the responses to /process-data
ProcessDataResponses ==
    {responses[i] : i \in {j \in DOMAIN responses :
                              responses[j].endpoint = "/process-data"}}

\* C21: a /process-data request that names a file with an unsupported
\* extension, a file lacking required columns or an unsupported institution
\* is answered with a 400-class status, as is one that lacks a required
\* field.
C21_ValidationErrors400 ==
    \A r \in ProcessDataResponses :
        r.error \in {"ValueError", "MissingField", "NotJson"}
        => r.status \in 400..499

\* a step that answers a /process-data request whose JSON body lacks a
\* required field
AnswersIncomplete ==
    /\ Len(responses') = Len(responses) + 1
    /\ Last(responses').endpoint = "/process-data"
    /\ Last(responses').body.is_json
    /\ MissingFields(Last(responses').body) # {}

\* C22: a /process-data request whose JSON body lacks institution or
\* file_paths is answered 400, and the step that answers it is the one that
\* took the request: no pipeline state, raw table, cache entry, taxonomy row
\* or transform run changes.
C22_ValidationPrecedesEffects ==
    /\ [](\A r \in ProcessDataResponses :
            r.body.is_json /\ MissingFields(r.body) # {} => r.status = 400)
    /\ [][AnswersIncomplete
            => /\ ops' = ops + 1
               /\ UNCHANGED <<durable, locals, dim_categories>>]_vars

\* a body without institution was answered 400 after a run had stored rows
\* and cache entries
C22_Witness ==
    /\ responses # <<>>
    /\ Last(responses).status = 400
    /\ Last(responses).body.is_json
    /\ "institution" \in MissingFields(Last(responses).body)
    /\ raw_amex_transactions # <<>>
    /\ dim_description_categories # <<>>

\* the responses to /init-categories that report success
SeedingsAnswered ==
    {i \in DOMAIN responses :
        /\ responses[i].endpoint = "/init-categories"
        /\ responses[i].status = 200}

\* C23: initialize_categories inserts nothing into a taxonomy table that
\* holds a row: the table is empty or holds the taxonomy once, however many
\* calls were answered, and a call that finds a row leaves the table as it
\* is.
C23_SeedingIdempotent ==
    /\ [](/\ dim_categories \in {<<>>, TaxonomyRows}
          /\ SeedingsAnswered # {} => dim_categories = TaxonomyRows)
    /\ [][dim_categories # <<>> => UNCHANGED dim_categories]_vars

\* two calls of /init-categories were answered 200 and the table holds the
\* taxonomy once
C23_Witness ==
    /\ Cardinality(SeedingsAnswered) = 2
    /\ dim_categories = TaxonomyRows

\* the number of taxonomy rows before response i was sent: the table is
\* seeded by the first successful call
RowsBefore(i) ==
    IF \E j \in SeedingsAnswered : j < i THEN TaxonomySize ELSE 0

\* C24: the response of /init-categories carries the number of rows the call
\* inserted: the taxonomy size when the table was empty, 0 when the call
\* inserted nothing.
C24_ReportsInserted ==
    \A i \in SeedingsAnswered :
        responses[i].categories =
            IF RowsBefore(i) = 0 THEN TaxonomySize ELSE 0

\* the answer of exchange e is a JSON array of objects, each with a
\* confidence_score that is a number or missing
WellFormed(e) ==
    /\ e.response.kind = "text"
    /\ e.response.text.fence = "json"
    /\ e.response.text.json.t = "array"
    /\ \A cat \in Range(e.response.text.json.items) :
            /\ cat.t = "object"
            /\ cat.confidence_score.t \in {"num", "absent"}

\* C25: a chunk of n descriptions answered by a well-formed array of k
\* objects emits min(k, n) records, record i made of description i and
\* object i by position: with k < n the last n - k descriptions get none,
\* with k > n the objects past n are dropped.
C25_ShortOrLongResponse ==
    \A p \in Procs : \A e \in Range(exchanges[p]) :
        WellFormed(e)
        => LET items == e.response.text.json.items
               k == Len(items)
               n == Len(e.batch)
           IN  /\ Len(e.results) = IF k <= n THEN k ELSE n
               /\ \A i \in DOMAIN e.results :
                    /\ e.results[i].original_description = e.batch[i]
                    /\ e.results[i].description_key
                            = PyStrip(Upper(e.batch[i]))
                    /\ items[i].general_category.t = "str"
                        => e.results[i].general_category
                                = items[i].general_category.v
                    /\ items[i].confidence_score.t = "num"
                        => e.results[i].confidence_score
                                = items[i].confidence_score.v

\* of 45 descriptions the first chunk was answered with 19 objects, the
\* second with 21 and the third with its 5 in reverse order
C25_Witness ==
    /\ Len(exchanges[1]) = 3
    /\ \A i \in 1..3 : WellFormed(exchanges[1][i])
    /\ Len(exchanges[1][1].response.text.json.items) = 19
    /\ Len(exchanges[1][1].results) = 19
    /\ Len(exchanges[1][2].response.text.json.items) = 21
    /\ Len(exchanges[1][2].results) = 20
    /\ exchanges[1][3].response.text.json.items = Reversed(GoodArray(5))
    /\ exchanges[1][3].results[1].confidence_score = 55

\* the descriptions of the chunks of process p that a well-formed array
\* shorter than the chunk left without a record
Dropped(p) ==
    UNION {{e.batch[i] : i \in (Len(e.results) + 1)..Len(e.batch)} :
            e \in {x \in Range(exchanges[p]) :
                        /\ WellFormed(x)
                        /\ Len(x.response.text.json.items) < Len(x.batch)}}

\* C26: a description dropped because the model's array was shorter than its
\* chunk has no cache entry when the run has merged, and the query for the
\* uncategorized descriptions evaluated from then on returns it (the keys of
\* these runs stay below the limit of 100), so that the next run that
\* reaches the query classifies it again.
C26_DroppedComeBack ==
    \A p \in Procs :
        (Len(trace[p]) > 1 /\ pc[p] \in {"FINAL_TRANSFORM", "DONE"}
            /\ "MERGING" \in Range(trace[p]))
        => \A d \in Dropped(p) :
            /\ d \notin CacheKeys
            /\ d \in Range(get_uncategorized_descriptions)

\* the run before completed all its stages and left a description it had
\* stored rows of without a cache entry; this run found the description
\* uncategorized and has a record for it
C26_Witness ==
    /\ Len(trace[1]) > 1
    /\ pc[1] = "MERGING"
    /\ Len(prev.trace) > 1
    /\ Last(prev.trace) = "DONE"
    /\ "MERGING" \in Range(prev.trace)
    /\ \E d \in Range(uncategorized_descriptions[1]) :
        /\ d \notin CacheKeys
        /\ \E i \in DOMAIN all_results[1] :
                all_results[1][i].description_key = d
        /\ \E i \in DOMAIN RawTables :
            /\ description_key(RawTables[i].description) = d
            /\ i <= base[1].amex

\* the load step of process p's invocation has returned
Loaded(p) ==
    /\ Filtered(p)
    /\ "STAGING_TRANSFORM" \in Range(trace[p])

\* the row hashes of a sequence of rows
RowHashes(rows) == {rows[i].row_hash : i \in DOMAIN rows}

\* C27: the file fingerprint alone gates ingestion: a listed file whose
\* bytes no ingested file has is kept by the filter whatever row_hash
\* values the store holds, and the load step appends every row of every
\* kept file, also the rows whose row_hash is stored already.
C27_FingerprintAloneGates ==
    \A p \in Procs :
        /\ (Filtered(p) /\ ~request[p].force_reprocess)
            => \A i \in DOMAIN request[p].file_paths :
                LET file_path == request[p].file_paths[i]
                IN  CountWhere(Found(p), get_file_hash(file_path)) = 0
                    <=> file_path \in Range(files_to_process[p])
        /\ Loaded(p)
            => Appended(p) = RowsOfFiles(files_to_process[p],
                                        Len(files_to_process[p]),
                                        request[p].institution)

\* a2.csv, whose bytes are new and whose rows all have a row_hash that a.csv
\* stored before, was kept and appended in full
C27_Witness ==
    /\ Loaded(1)
    /\ request[1].file_paths = <<"a2.csv">>
    /\ ~request[1].force_reprocess
    /\ CountWhere(Found(1), get_file_hash("a2.csv")) = 0
    /\ RowHashes(parse_file("a2.csv", "amex")) \subseteq RowHashes(Found(1))
    /\ Appended(1) = parse_file("a2.csv", "amex")
    /\ Len(Appended(1)) = 2

\* process p's invocation of process_files has entered state s
Entered(p, s) == Filtered(p) /\ s \in Range(trace[p])

\* C28: within an invocation the staging transform starts only after every
\* kept file is appended; the uncategorized descriptions are queried only
\* after the staging transform ran; the merge happens in one step, after
\* every chunk is classified; the final transform runs intermediate, then
\* marts, after the merge; raw rows are written only while loading and
\* cache entries only by the merge, so none is written once the final
\* transform has started.
C28_StepOrdering ==
    /\ [](\A p \in Procs :
            /\ Entered(p, "STAGING_TRANSFORM")
                => Appended(p) = RowsOfFiles(files_to_process[p],
                                            Len(files_to_process[p]),
                                            request[p].institution)
            /\ Entered(p, "FINDING_GAP") => "staging" \in dbt.since_raw
            /\ Entered(p, "MERGING")
                => /\ cursor[p] >= Len(uncategorized_descriptions[p])
                   /\ Len(exchanges[p])
                        = RequestsFor(Len(uncategorized_descriptions[p]))
            /\ Entered(p, "FINAL_TRANSFORM")
                => /\ uncategorized_descriptions[p] # <<>>
                        => Entered(p, "MERGING")
                   /\ Entered(p, "FINDING_GAP")
                   /\ pc[p] = "FINAL_TRANSFORM"
                        => \/ selections[p] = <<"intermediate", "marts">>
                           \/ /\ selections[p] = <<"marts">>
                              /\ "intermediate" \in dbt.since_cache
                              /\ "intermediate" \in dbt.since_raw
                   /\ pc[p] = "DONE"
                        => {"intermediate", "marts"}
                                \subseteq (dbt.since_cache \cap dbt.since_raw))
    /\ [][(\A p \in Procs : request'[p].op # "delete_file_data")
            => /\ RawTables' # RawTables
                    => \E p \in Procs : Processing(p) /\ pc[p] = "LOADING"
               /\ dim_description_categories' # dim_description_categories
                    => \E p \in Procs :
                        /\ Processing(p)
                        /\ pc[p] = "MERGING"
                        /\ pc'[p] = "FINAL_TRANSFORM"]_vars

\* an invocation went through every state: two files appended, the staging
\* transform, the query, a chunk classified, the merge, both final selections
C28_Witness ==
    /\ Filtered(1)
    /\ trace[1] = StatesInOrder
    /\ Len(files_to_process[1]) = 2
    /\ Len(Appended(1)) = 6
    /\ exchanges[1] # <<>>
    /\ result[1].new_categories > 0

\* the listed files of process p's invocation that pass the filter: all of
\* them when forced, else those whose bytes had no row when it began
PassedFilter(p) ==
    {i \in DOMAIN request[p].file_paths :
        \/ request[p].force_reprocess
        \/ CountWhere(Found(p), get_file_hash(request[p].file_paths[i])) = 0}

\* C29: when a sequential invocation returns its result, files_processed is
\* the number of listed files that passed the filter, rows_inserted the
\* number of raw rows the invocation appended, new_categories the number of
\* entries it appended to the category cache.
C29_CountersMatchDeltas ==
    \A p \in Procs :
        (Filtered(p) /\ pc[p] = "DONE")
        => /\ result[p].files_processed = Cardinality(PassedFilter(p))
           /\ result[p].rows_inserted = Len(Appended(p))
           /\ result[p].new_categories
                = Len(dim_description_categories) - base[p].cache

\* an invocation returned after it kept two files, appended their six rows
\* and merged fewer records than it had asked for
C29_Witness ==
    /\ Filtered(1)
    /\ pc[1] = "DONE"
    /\ result[1].files_processed = 2
    /\ result[1].rows_inserted = 6
    /\ result[1].new_categories > 0
    /\ result[1].new_categories < Len(uncategorized_descriptions[1])
    /\ base[1].cache > 0

\* the rows of a table that do not carry the file fingerprint
OtherRows(table, file_hash) ==
    SelectSeq(table, LAMBDA row : row.file_hash # file_hash)

\* the rows the forget of process p has removed so far
Removed(p) ==
    base[p].amex + base[p].wealthsimple - Len(RawTables)

\* C30: delete_file_data removes from both raw tables exactly the rows that
\* carry the file's fingerprint and returns their number; every step of it
\* leaves the rows with another fingerprint, in their order, and the whole
\* category cache as they are.
C30_ForgetFrame ==
    /\ [](\A p \in Procs :
            (Forgetting(p) /\ "FORGET_TRANSFORM" \in Range(trace[p]))
            => /\ CountWhere(RawTables,
                             get_file_hash(request[p].file_path)) = 0
               /\ total_rows[p] = Removed(p)
               /\ pc[p] = "DONE" => result[p].rows_deleted = Removed(p))
    /\ [][\A p \in Procs :
            (Forgetting(p) /\ request'[p] = request[p])
            => LET file_hash == get_file_hash(request[p].file_path)
               IN  /\ UNCHANGED dim_description_categories
                   /\ OtherRows(raw_amex_transactions', file_hash)
                        = OtherRows(raw_amex_transactions, file_hash)
                   /\ OtherRows(raw_wealthsimple_transactions', file_hash)
                        = OtherRows(raw_wealthsimple_transactions, file_hash)
                   /\ raw_amex_transactions'
                        \in {raw_amex_transactions,
                             OtherRows(raw_amex_transactions, file_hash)}
                   /\ raw_wealthsimple_transactions'
                        \in {raw_wealthsimple_transactions,
                             OtherRows(raw_wealthsimple_transactions,
                                       file_hash)}]_vars

\* the bytes of a.csv were stored in both raw tables, three rows each; the
\* forget removed the six and left the rows of b.csv and the cache entries
C30_Witness ==
    /\ Forgetting(1)
    /\ pc[1] = "DONE"
    /\ result[1].rows_deleted = 6
    /\ base[1].amex = 3
    /\ Len(raw_wealthsimple_transactions) = 3
    /\ dim_description_categories # <<>>

\* the key of record r is its original_description upper-cased and trimmed,
\* by Python's rule and by the warehouse's alike
KeyNormalized(r) ==
    /\ r.description_key = PyStrip(Upper(r.original_description))
    /\ r.description_key = Upper(PyStrip(r.original_description))
    /\ r.description_key = Upper(SqlTrim(r.original_description))

\* a record the fallback made
IsFallbackRecord(r) ==
    /\ r.general_category = s_Uncategorized
    /\ r.detailed_category = s_Uncategorized
    /\ r.confidence_score = 0

\* C31: every entry a step writes to the category cache, and every record
\* handed to the merge, made of a model answer or by the fallback, has a
\* description_key that is its original_description upper-cased and
\* trimmed.
C31_CacheKeysNormalized ==
    /\ [](\A p \in Procs :
            pc[p] = "MERGING"
            => \A r \in Range(all_results[p]) : KeyNormalized(r))
    /\ [][\A i \in DOMAIN dim_description_categories' :
            i > Len(dim_description_categories)
            => KeyNormalized(dim_description_categories'[i])]_vars

\* the cache holds a fallback record and a record made of a model answer,
\* for descriptions that are stored in mixed case
C31_Witness ==
    /\ \E r \in Range(dim_description_categories) :
            IsFallbackRecord(r) /\ r.description_key = s_STARBUCKS
    /\ \E r \in Range(dim_description_categories) :
            ~IsFallbackRecord(r) /\ r.description_key = s_NETFLIX
    /\ \E i \in DOMAIN raw_wealthsimple_transactions :
            raw_wealthsimple_transactions[i].description = s_Netflix
    /\ \E i \in DOMAIN raw_amex_transactions :
            raw_amex_transactions[i].description = s_Starbucks

\* the fingerprints of the files process p's invocation lists
Fingerprints(p) ==
    {get_file_hash(request[p].file_paths[i]) :
        i \in DOMAIN request[p].file_paths}

\* the rows one file of fingerprint file_hash holds
RowsOfFingerprint(file_hash, institution) ==
    LET file_path == CHOOSE f \in Paths : get_file_hash(f) = file_hash
    IN  Len(parse_file(file_path, institution))

\* C32: an invocation with force_reprocess = false appends the rows of any
\* one file fingerprint at most once: none when the store held rows of the
\* fingerprint already, and no more than one file's rows otherwise, also
\* when the file list names the same bytes under two paths.
C32_AtMostOncePerFingerprint ==
    \A p \in Procs :
        (Filtered(p) /\ ~request[p].force_reprocess)
        => \A file_hash \in Fingerprints(p) :
            CountWhere(Appended(p), file_hash)
                <= IF CountWhere(Found(p), file_hash) > 0
                   THEN 0
                   ELSE RowsOfFingerprint(file_hash, request[p].institution)

\* the same, for the invocations whose list names every fingerprint once
C32_DistinctFingerprints ==
    \A p \in Procs :
        (/\ Filtered(p)
         /\ ~request[p].force_reprocess
         /\ Cardinality(Fingerprints(p)) = Len(request[p].file_paths))
        => \A file_hash \in Fingerprints(p) :
            CountWhere(Appended(p), file_hash)
                <= IF CountWhere(Found(p), file_hash) > 0
                   THEN 0
                   ELSE RowsOfFingerprint(file_hash, request[p].institution)

\* the filter of p's invocation has returned the empty list
FilteredToNothing(p) ==
    /\ Filtered(p)
    /\ trace[p][2] # "FAILED"
    /\ files_to_process[p] = <<>>

\* C33: when the filter leaves no file to process, process_files returns
\* the all-zero result straight from the filter step: no raw row is
\* appended, no transform is invoked, no gap query is made, no request goes
\* to the model and nothing is written to the cache.
C33_EmptyFilterFrame ==
    /\ [](\A p \in Procs :
            FilteredToNothing(p)
            => /\ trace[p] = <<"FILTERING", "DONE">>
               /\ pc[p] = "DONE"
               /\ result[p] = ZeroResult
               /\ Appended(p) = <<>>
               /\ Len(dim_description_categories) = base[p].cache
               /\ models_built[p] = 0
               /\ selections[p] = <<>>
               /\ uncategorized_descriptions[p] = <<>>
               /\ exchanges[p] = <<>>
               /\ all_results[p] = <<>>)
    /\ [][\A p \in Procs :
            (pc[p] = "FILTERING" /\ FilteredToNothing(p)')
            => /\ UNCHANGED durable
               /\ pc'[p] = "DONE"
               /\ result'[p] = ZeroResult]_vars

\* an invocation listing a file that is stored already has returned from
\* the filter step
C33_Witness ==
    /\ FilteredToNothing(1)
    /\ pc[1] = "DONE"
    /\ request[1].file_paths = <<"a.csv">>
    /\ ~request[1].force_reprocess
    /\ Found(1) # <<>>
    /\ dbt.since_raw # {}

\* the merge of p's invocation has been made
Merged(p) ==
    /\ Processing(p)
    /\ "FINAL_TRANSFORM" \in Range(trace[p])
    /\ "MERGING" \in Range(trace[p])

\* the keys of the fallback records the cache holds
FallbackKeys ==
    {r.description_key :
        r \in {e \in Range(dim_description_categories) : IsFallbackRecord(e)}}

\* the fallback keys the cache held when p's invocation began
FallbackKeysFound(p) ==
    {dim_description_categories[i].description_key :
        i \in {j \in 1..base[p].cache :
                    IsFallbackRecord(dim_description_categories[j])}}

\* C34: the records of the Uncategorized fallback are merged into the cache
\* as the records of a model answer are, and they stay: the key of a
\* description whose chunk failed is in no later answer of the gap query and
\* in no chunk a later invocation sends to the model, and no step removes a
\* cache entry.
C34_FallbackCachedPermanently ==
    /\ [](\A p \in Procs :
            Merged(p)
            => \A e \in Range(exchanges[p]) :
                    Range(e.results)
                        \subseteq Range(dim_description_categories))
    /\ [](\A p \in Procs :
            JustFound(p)
            => FallbackKeys \cap Range(uncategorized_descriptions[p]) = {})
    /\ [](\A p \in Procs :
            Processing(p)
            => /\ FallbackKeysFound(p)
                    \cap Range(uncategorized_descriptions[p]) = {}
               /\ \A e \in Range(exchanges[p]) :
                    FallbackKeysFound(p) \cap Range(e.batch) = {})
    /\ [][IsPrefix(dim_description_categories,
                   dim_description_categories')]_vars

\* a chunk failed in the previous invocation and its fallback records were
\* merged; the current invocation has asked for the gap again, over raw rows
\* that still carry the description, and sent another description to the
\* model
C34_Witness ==
    /\ Merged(1)
    /\ s_STARBUCKS \in FallbackKeysFound(1)
    /\ "MERGING" \in Range(prev.trace)
    /\ \E i \in DOMAIN RawTables : RawTables[i].description = s_Starbucks
    /\ exchanges[1] # <<>>

\* p's invocation is forced
Forced(p) == Processing(p) /\ request[p].force_reprocess

\* the files of p's list that had rows when the invocation began
StoredBefore(p) ==
    {i \in DOMAIN request[p].file_paths :
        CountWhere(Found(p), get_file_hash(request[p].file_paths[i])) > 0}

\* C35: with force_reprocess = true the filter returns the file list as it
\* is, in one step and without a ledger query; every listed file is parsed
\* and appended, no stored row is removed or changed, and a listed file that
\* had rows has them stored twice after the load.
C35_ForceBypassesLedger ==
    /\ [](\A p \in Procs :
            Forced(p)
            => /\ (pc[p] = "FILTERING")
                    => (cursor[p] = 1 /\ files_to_process[p] = <<>>)
               /\ Filtered(p)
                    => (/\ trace[p][2] = "LOADING"
                        /\ files_to_process[p] = request[p].file_paths)
               /\ Loaded(p)
                    => /\ Appended(p) =
                            RowsOfFiles(request[p].file_paths,
                                        Len(request[p].file_paths),
                                        request[p].institution)
                       /\ \A i \in StoredBefore(p) :
                            LET file_path == request[p].file_paths[i]
                                file_hash == get_file_hash(file_path)
                            IN  CountWhere(RawTables, file_hash) =
                                    CountWhere(Found(p), file_hash)
                                    + Len(parse_file(file_path,
                                                     request[p].institution)))
    /\ [][\A p \in Procs :
            (Forced(p) /\ Forced(p)')
            => /\ IsPrefix(raw_amex_transactions, raw_amex_transactions')
               /\ IsPrefix(raw_wealthsimple_transactions,
                           raw_wealthsimple_transactions')
               /\ (pc[p] = "FILTERING" /\ request'[p] = request[p])
                    => pc'[p] = "LOADING"]_vars

\* a.csv was ingested, then forced: its three rows are stored twice
C35_Witness ==
    /\ Forced(1)
    /\ Loaded(1)
    /\ request[1].file_paths = <<"a.csv">>
    /\ StoredBefore(1) = {1}
    /\ CountWhere(Found(1), get_file_hash("a.csv")) = 3
    /\ CountWhere(raw_amex_transactions, get_file_hash("a.csv")) = 6

\* the cache entries p's invocation has appended (sequential use)
Cached(p) ==
    SubSeq(dim_description_categories, base[p].cache + 1,
           Len(dim_description_categories))

\* C36: one invocation of process_files sends at most 5 requests to the
\* model, each for at most 20 descriptions and yielding no more records than
\* descriptions, and appends at most 100 entries to the category cache,
\* however many uncategorized keys the raw tables hold.
C36_EnrichmentBound ==
    \A p \in Procs :
        Processing(p)
        => /\ Len(exchanges[p]) <= 5
           /\ \A e \in Range(exchanges[p]) :
                /\ Len(e.batch) <= 20
                /\ Len(e.results) <= Len(e.batch)
           /\ Len(uncategorized_descriptions[p]) <= 100
           /\ Len(all_results[p]) <= 100
           /\ Len(Cached(p)) <= 100
           /\ result[p].new_categories <= 100

\* an invocation that found more than 100 uncategorized keys has sent 5
\* requests and appended 100 entries, and keys are left over
C36_Witness ==
    /\ Merged(1)
    /\ Len(exchanges[1]) = 5
    /\ Len(Cached(1)) = 100
    /\ result[1].new_categories = 100
    /\ Cardinality(Gap) >= BulkRows - 100
    /\ Gap # {}

\* the records a well-formed answer of exchange e gives, by position
OwnRecords(e) ==
    LET items == e.response.text.json.items
    IN  [i \in 1..Min2(Len(items), Len(e.batch)) |->
            ItemRecord(e.batch[i], items[i])]

\* the call for the chunk of exchange e raised, or parsing its answer did
ChunkRaised(e) ==
    \/ e.response.kind = "raise"
    \/ parse_gemini_response(e.response.text, e.batch).raised # "no"

\* C37: a call or parse failure in one chunk changes the records of that
\* chunk alone: whatever happened to the other chunks, the records of a
\* chunk with a well-formed answer are those made of its own descriptions
\* and its own answer, the records of a failed chunk are the fallback for
\* its own descriptions, the records of any other chunk are what parsing its
\* own answer gives, all_results is the records of the chunks in order,
\* and every chunk of the list is requested, also after a failed one.
C37_ChunkIsolation ==
    /\ [](\A p \in Procs :
            LET sent == exchanges[p]
            IN  /\ all_results[p] =
                        Concat([k \in DOMAIN sent |-> sent[k].results])
                /\ Classified(p)
                    => Len(sent) =
                            RequestsFor(Len(uncategorized_descriptions[p])))
    /\ [][\A p \in Procs :
            (Len(exchanges'[p]) = Len(exchanges[p]) + 1)
            => LET e == Last(exchanges'[p])
                   raised == ChunkRaised(e)
               IN  /\ IsPrefix(exchanges[p], exchanges'[p])
                   /\ IsPrefix(all_results[p], all_results'[p])
                   /\ raised => e.results = Fallback(e.batch)
                   /\ ~raised
                        => e.results =
                            parse_gemini_response(e.response.text,
                                                  e.batch).results
                   /\ WellFormed(e) => e.results = OwnRecords(e)]_vars

\* the first of three chunks failed, the second was answered well and has
\* the records of its answer, the third was requested all the same
C37_Witness ==
    /\ Classified(1)
    /\ Len(exchanges[1]) = 3
    /\ exchanges[1][1].response.kind = "raise"
    /\ WellFormed(exchanges[1][2])
    /\ Len(exchanges[1][2].results) = batch_size
    /\ \A r \in Range(exchanges[1][2].results) : ~IsFallbackRecord(r)
    /\ Len(exchanges[1][3].batch) > 0

\* C38: when every external call returns or raises, every invocation of
\* process_files reaches DONE or FAILED: a running invocation leads to an
\* ended one, whatever the file list and the number of uncategorized keys,
\* and no invocation enters more states than the pipeline has.
C38_Termination ==
    /\ (Processing(1) /\ ~Ended(1)) ~> (pc[1] \in {"DONE", "FAILED"})
    /\ [](Processing(1) => Len(trace[1]) <= Len(StatesInOrder))

\* an invocation over the bulk backlog is DONE after five requests, one of
\* which raised, and the invocation before it had FAILED
C38_Witness ==
    /\ pc[1] = "DONE"
    /\ Processing(1)
    /\ Len(exchanges[1]) = 5
    /\ \E e \in Range(exchanges[1]) : e.response.kind = "raise"
    /\ prev.trace # <<>>
    /\ Last(prev.trace) = "FAILED"

=============================================================================
